---- MODULE Spec2Model ----
(***************************************************************************)
(* ingress-to-gateway: the conversion engine (pkg/converter), the          *)
(* constraint validator (pkg/validator) and the analyzer (pkg/analyzer).   *)
(*                                                                         *)
(* Go strings whose characters matter (hostnames, paths, names, durations, *)
(* annotation values) are sequences of one-character strings, so that      *)
(* Sprintf, strings.Split, strconv.Atoi and the regular expressions are    *)
(* computed character by character.  A Go pointer or optional field is a   *)
(* sequence of length 0 (nil) or 1 (the value).  A Go map is a function    *)
(* whose DOMAIN is the set of keys present.  A nil-pointer dereference is  *)
(* the outcome "panic".                                                    *)
(***************************************************************************)
EXTENDS Integers, Sequences, FiniteSets, TLC

VARIABLES
    ingresses,   \* the []interface{} handed to Convert
    opts,        \* Converter.opts
    httpRoutes,  \* outcome of the latest call of a converter entry point
    prevRoutes,  \* outcome of the call before it
    rulesOut,       \* outcome of the latest direct call of convertHTTPRules
    timeoutsOut,    \* outcome of the latest direct call of extractTimeouts
    strict,         \* Validator.strict
    route,          \* the HTTPRoute handed to the validator
    validation,     \* outcome of the latest validateHTTPRoute
    prevValidation, \* outcome of the validateHTTPRoute before it
    cmdResult,      \* outcome of the latest run of the validate command
    score,          \* the complexity score handed to assessReadiness
    features,       \* the detected features handed to assessReadiness
    readiness,      \* outcome of the latest assessReadiness
    rawName,        \* the string handed to sanitizeName
    cleanName,      \* outcome of the latest direct call of sanitizeName
    analysis,       \* outcome of the latest call of an analysis function
    cluster,        \* the namespaces of the cluster the batch command reads
    batch           \* outcome of the latest run of the batch command

convVars == <<ingresses, opts, httpRoutes, prevRoutes, rulesOut, timeoutsOut>>
valVars == <<strict, route, validation, prevValidation, cmdResult>>
anVars == <<score, features, readiness, analysis>>
sanVars == <<rawName, cleanName>>
batchVars == <<cluster, batch>>
vars == <<convVars, valVars, anVars, sanVars, batchVars>>

(***************************************************************************)
(* Bounds of the model.                                                    *)
(***************************************************************************)
MaxAnnLen == 2      \* characters of a timeout annotation value
MaxPaths == 4       \* entries of the path list given to convertHTTPRules
MaxRules == 2       \* rules of a source Ingress
MaxIngresses == 2   \* items of the list given to Convert
MaxHostnames == 2   \* hostnames of a validated HTTPRoute
MaxValRules == 2    \* rules of a validated HTTPRoute
MaxMatches == 2     \* matches of a rule of a validated HTTPRoute

(***************************************************************************)
(* Pointers and strings.                                                   *)
(***************************************************************************)
None == <<>>
Some(x) == <<x>>

Digit == {"0", "1", "2", "3", "4", "5", "6", "7", "8", "9"}
Lower == {"a", "b", "c", "d", "e", "f", "g", "h", "i", "j", "k", "l", "m",
          "n", "o", "p", "q", "r", "s", "t", "u", "v", "w", "x", "y", "z"}

DigitVal(c) ==
    CASE c = "0" -> 0 [] c = "1" -> 1 [] c = "2" -> 2 [] c = "3" -> 3
      [] c = "4" -> 4 [] c = "5" -> 5 [] c = "6" -> 6 [] c = "7" -> 7
      [] c = "8" -> 8 [] c = "9" -> 9

DigitChar(d) ==
    CASE d = 0 -> "0" [] d = 1 -> "1" [] d = 2 -> "2" [] d = 3 -> "3"
      [] d = 4 -> "4" [] d = 5 -> "5" [] d = 6 -> "6" [] d = 7 -> "7"
      [] d = 8 -> "8" [] d = 9 -> "9"

\* the value of a non-empty digit string
RECURSIVE DigitsVal(_)
DigitsVal(s) ==
    IF Len(s) = 0 THEN 0
    ELSE 10 * DigitsVal(SubSeq(s, 1, Len(s) - 1)) + DigitVal(s[Len(s)])

\* strconv.Atoi: an optional sign followed by one or more decimal digits
Atoi(s) ==
    LET signed == Len(s) > 0 /\ s[1] \in {"+", "-"}
        body == IF signed THEN SubSeq(s, 2, Len(s)) ELSE s
        ok == Len(body) > 0 /\ \A i \in 1..Len(body) : body[i] \in Digit
    IN  IF ~ok THEN [ok |-> FALSE, val |-> 0]
        ELSE [ok |-> TRUE,
              val |-> IF signed /\ s[1] = "-" THEN 0 - DigitsVal(body)
                      ELSE DigitsVal(body)]

\* fmt.Sprintf("%d", n)
RECURSIVE NatStr(_)
NatStr(n) ==
    IF n < 10 THEN <<DigitChar(n)>>
    ELSE NatStr(n \div 10) \o <<DigitChar(n % 10)>>

Itoa(n) == IF n < 0 THEN <<"-">> \o NatStr(0 - n) ELSE NatStr(n)

\* strings.Split(s, sep) for a one-character separator
RECURSIVE Split(_, _)
Split(s, sep) ==
    IF \A i \in 1..Len(s) : s[i] # sep THEN <<s>>
    ELSE LET i == CHOOSE k \in 1..Len(s) :
                      s[k] = sep /\ \A j \in 1..(k - 1) : s[j] # sep
         IN  <<SubSeq(s, 1, i - 1)>> \o Split(SubSeq(s, i + 1, Len(s)), sep)

\* strings.Join(parts, sep)
RECURSIVE Join(_, _)
Join(parts, sep) ==
    IF Len(parts) = 0 THEN <<>>
    ELSE IF Len(parts) = 1 THEN parts[1]
    ELSE parts[1] \o sep \o Join(Tail(parts), sep)

(***************************************************************************)
(* pkg/converter                                                           *)
(***************************************************************************)
ReadTimeoutKey == "nginx.ingress.kubernetes.io/proxy-read-timeout"
SendTimeoutKey == "nginx.ingress.kubernetes.io/proxy-send-timeout"
RewriteTargetKey == "nginx.ingress.kubernetes.io/rewrite-target"
PermanentRedirectKey == "nginx.ingress.kubernetes.io/permanent-redirect"
IngressClassKey == "kubernetes.io/ingress.class"

\* fmt.Sprintf("%ds", seconds)
FormatSeconds(seconds) == Itoa(seconds) \o <<"s">>

\* a variant of extractTimeouts: a parsable send-timeout fills both fields and
\* the read-timeout only fills what is still unset
extractTimeoutsSendFirst(ing) ==
    LET anns == ing.Annotations
        rd == IF ReadTimeoutKey \in DOMAIN anns
              THEN Atoi(anns[ReadTimeoutKey]) ELSE [ok |-> FALSE, val |-> 0]
        sd == IF SendTimeoutKey \in DOMAIN anns
              THEN Atoi(anns[SendTimeoutKey]) ELSE [ok |-> FALSE, val |-> 0]
    IN  IF sd.ok
        THEN Some([Request |-> Some(FormatSeconds(sd.val)),
                   BackendRequest |-> Some(FormatSeconds(sd.val))])
        ELSE IF rd.ok
        THEN Some([Request |-> Some(FormatSeconds(rd.val)),
                   BackendRequest |-> Some(FormatSeconds(rd.val))])
        ELSE None

\* a variant of extractTimeouts: the send-timeout overwrites backendRequest
extractTimeoutsSendWins(ing) ==
    LET anns == ing.Annotations
        rd == IF ReadTimeoutKey \in DOMAIN anns
              THEN Atoi(anns[ReadTimeoutKey]) ELSE [ok |-> FALSE, val |-> 0]
        sd == IF SendTimeoutKey \in DOMAIN anns
              THEN Atoi(anns[SendTimeoutKey]) ELSE [ok |-> FALSE, val |-> 0]
        t1 == IF rd.ok
              THEN Some([Request |-> Some(FormatSeconds(rd.val)),
                         BackendRequest |-> Some(FormatSeconds(rd.val))])
              ELSE None
    IN  IF sd.ok
        THEN LET cur == IF t1 = None
                        THEN [Request |-> None, BackendRequest |-> None]
                        ELSE t1[1]
             IN  Some([Request |-> IF cur.Request = None
                                   THEN Some(FormatSeconds(sd.val))
                                   ELSE cur.Request,
                       BackendRequest |-> Some(FormatSeconds(sd.val))])
        ELSE t1

\* Converter.extractTimeouts: nil, or a pointer to HTTPRouteTimeouts
extractTimeouts(ing) ==
    LET anns == ing.Annotations
        rd == IF ReadTimeoutKey \in DOMAIN anns
              THEN Atoi(anns[ReadTimeoutKey]) ELSE [ok |-> FALSE, val |-> 0]
        sd == IF SendTimeoutKey \in DOMAIN anns
              THEN Atoi(anns[SendTimeoutKey]) ELSE [ok |-> FALSE, val |-> 0]
        \* after the proxy-read-timeout block
        t1 == IF rd.ok
              THEN Some([Request |-> Some(FormatSeconds(rd.val)),
                         BackendRequest |-> Some(FormatSeconds(rd.val))])
              ELSE None
    IN  \* the proxy-send-timeout block: only fields that are still nil
        IF sd.ok
        THEN LET cur == IF t1 = None
                        THEN [Request |-> None, BackendRequest |-> None]
                        ELSE t1[1]
             IN  Some([Request |-> IF cur.Request = None
                                   THEN Some(FormatSeconds(sd.val))
                                   ELSE cur.Request,
                       BackendRequest |-> IF cur.BackendRequest = None
                                          THEN Some(FormatSeconds(sd.val))
                                          ELSE cur.BackendRequest])
        ELSE t1

\* Converter.extractFilters (its error result is always nil)
extractFilters(ing) ==
    LET anns == ing.Annotations
        rewrite == IF RewriteTargetKey \in DOMAIN anns
                   THEN <<[Type |-> "URLRewrite",
                           URLRewrite |-> Some([ReplaceFullPath |-> anns[RewriteTargetKey]]),
                           RequestRedirect |-> None]>>
                   ELSE <<>>
        redirect == IF PermanentRedirectKey \in DOMAIN anns
                    THEN <<[Type |-> "RequestRedirect",
                            URLRewrite |-> None,
                            RequestRedirect |-> Some([Hostname |-> anns[PermanentRedirectKey],
                                                      StatusCode |-> 301])]>>
                    ELSE <<>>
    IN  rewrite \o redirect

\* a coarser key, the path alone: what the seen map would hold if the service
\* name were left out of the key
dedupKeyPathOnly(path) == path.Path

\* the key of the seen map: fmt.Sprintf("%s:%s", path.Path, path.Backend.Service.Name)
dedupKey(path) == path.Path \o <<":">> \o path.Backend.Service[1].Name

\* the body of the loop of convertHTTPRules for one retained path
ruleOfPath(ing, path) ==
    [Matches |-> <<[Path |-> Some([Type |-> Some(IF path.PathType = Some("Exact")
                                                 THEN "Exact" ELSE "PathPrefix"),
                                   Value |-> Some(IF path.Path = <<>>
                                                  THEN <<"/">> ELSE path.Path)])]>>,
     BackendRefs |-> <<[Name |-> path.Backend.Service[1].Name,
                        Port |-> Some(path.Backend.Service[1].Port),
                        Weight |-> Some(1)]>>,
     Filters |-> extractFilters(ing),
     Timeouts |-> extractTimeouts(ing)]

\* the loop of convertHTTPRules from entry i on, with the seen map and the
\* rules built so far
RECURSIVE convertHTTPRulesFrom(_, _, _, _, _)
convertHTTPRulesFrom(ing, paths, i, seen, rules) ==
    IF i > Len(paths) THEN [status |-> "ok", rules |-> rules]
    ELSE IF paths[i].Backend.Service = None
         THEN [status |-> "panic", rules |-> <<>>]
    ELSE IF dedupKey(paths[i]) \in seen
         THEN convertHTTPRulesFrom(ing, paths, i + 1, seen, rules)
    ELSE convertHTTPRulesFrom(ing, paths, i + 1, seen \cup {dedupKey(paths[i])},
                              Append(rules, ruleOfPath(ing, paths[i])))

\* Converter.convertHTTPRules
convertHTTPRules(ing, paths) == convertHTTPRulesFrom(ing, paths, 1, {}, <<>>)

\* Converter.createDefaultBackendRule: dereferences backend.Service
createDefaultBackendRule(ing, backend) ==
    IF backend.Service = None THEN [status |-> "panic", rule |-> None]
    ELSE [status |-> "ok",
          rule |-> Some([Matches |-> <<[Path |-> Some([Type |-> Some("PathPrefix"),
                                                       Value |-> Some(<<"/">>)])]>>,
                         BackendRefs |-> <<[Name |-> backend.Service[1].Name,
                                            Port |-> Some(backend.Service[1].Port),
                                            Weight |-> Some(1)]>>,
                         Filters |-> <<>>,
                         Timeouts |-> None])]

GatewayPrefix == <<"g", "a", "t", "e", "w", "a", "y", "-">>
HTTPRouteSuffix == <<"-", "h", "t", "t", "p", "r", "o", "u", "t", "e">>

\* a variant of deriveGatewayName that looks at the legacy annotation first
deriveGatewayNameAnnotationFirst(ing) ==
    IF IngressClassKey \in DOMAIN ing.Annotations
    THEN GatewayPrefix \o ing.Annotations[IngressClassKey]
    ELSE IF ing.IngressClassName # None THEN GatewayPrefix \o ing.IngressClassName[1]
    ELSE GatewayPrefix \o <<"n", "g", "i", "n", "x">>

\* Converter.deriveGatewayName
deriveGatewayName(ing) ==
    IF ing.IngressClassName # None THEN GatewayPrefix \o ing.IngressClassName[1]
    ELSE IF IngressClassKey \in DOMAIN ing.Annotations
         THEN GatewayPrefix \o ing.Annotations[IngressClassKey]
    ELSE GatewayPrefix \o <<"n", "g", "i", "n", "x">>

\* the "Set parent refs" block shared by the three split modes
parentRefs(ing, o) ==
    <<[Name |-> IF o.GatewayName = <<>> THEN deriveGatewayName(ing)
                ELSE o.GatewayName,
       Kind |-> None]>>

\* Converter.extractHostPattern: the last two dot-separated labels
extractHostPattern(host) ==
    LET parts == Split(host, ".")
    IN  IF Len(parts) >= 2
        THEN Join(SubSeq(parts, Len(parts) - 1, Len(parts)), <<".">>)
        ELSE host

UpperChars == <<"A", "B", "C", "D", "E", "F", "G", "H", "I", "J", "K", "L", "M",
                "N", "O", "P", "Q", "R", "S", "T", "U", "V", "W", "X", "Y", "Z">>
LowerChars == <<"a", "b", "c", "d", "e", "f", "g", "h", "i", "j", "k", "l", "m",
                "n", "o", "p", "q", "r", "s", "t", "u", "v", "w", "x", "y", "z">>

\* strings.ToLower on one character
ToLowerChar(c) ==
    IF \E i \in 1..Len(UpperChars) : UpperChars[i] = c
    THEN LowerChars[CHOOSE i \in 1..Len(UpperChars) : UpperChars[i] = c]
    ELSE c

\* strings.Trim(s, "-")
RECURSIVE TrimHyphens(_)
TrimHyphens(s) ==
    IF Len(s) > 0 /\ s[1] = "-" THEN TrimHyphens(Tail(s))
    ELSE IF Len(s) > 0 /\ s[Len(s)] = "-" THEN TrimHyphens(SubSeq(s, 1, Len(s) - 1))
    ELSE s

NameLimit == 63

\* sanitizeName: lower-case, replace [^a-z0-9-] by '-', trim '-', cut at 63
sanitizeName(name) ==
    LET replaced == [i \in 1..Len(name) |->
                        IF ToLowerChar(name[i]) \in Lower \cup Digit \cup {"-"}
                        THEN ToLowerChar(name[i]) ELSE "-"]
        sanitized == TrimHyphens(replaced)
    IN  IF Len(sanitized) > NameLimit THEN SubSeq(sanitized, 1, NameLimit)
        ELSE sanitized

\* the hostnames collected by convertSingle: every non-empty rule host
RECURSIVE collectHostnames(_)
collectHostnames(rules) ==
    IF Len(rules) = 0 THEN <<>>
    ELSE IF rules[1].Host # <<>> THEN <<rules[1].Host>> \o collectHostnames(Tail(rules))
    ELSE collectHostnames(Tail(rules))

\* the rules both single and per-pattern mode take from the first source rule
firstRuleRules(ing) ==
    IF Len(ing.Rules) > 0 /\ ing.Rules[1].HTTP # None
    THEN convertHTTPRules(ing, ing.Rules[1].HTTP[1].Paths)
    ELSE [status |-> "ok", rules |-> <<>>]

\* Converter.convertSingle
convertSingle(ing, o) ==
    LET base == firstRuleRules(ing)
        dflt == IF ing.DefaultBackend = None THEN [status |-> "ok", rule |-> None]
                ELSE createDefaultBackendRule(ing, ing.DefaultBackend[1])
    IN  IF base.status = "panic" \/ dflt.status = "panic"
        THEN [status |-> "panic", routes |-> <<>>]
        ELSE [status |-> "ok",
              routes |-> <<[Name |-> ing.Name \o HTTPRouteSuffix,
                            Namespace |-> ing.Namespace,
                            Hostnames |-> collectHostnames(ing.Rules),
                            ParentRefs |-> parentRefs(ing, o),
                            Rules |-> base.rules \o dflt.rule]>>]

\* a per-host loop that gives every host the rules of the first source rule's
\* path list, as single mode does
RECURSIVE convertPerHostFirstRule(_, _, _, _)
convertPerHostFirstRule(ing, o, i, routes) ==
    IF i > Len(ing.Rules) THEN [status |-> "ok", routes |-> routes]
    ELSE IF ing.Rules[i].Host = <<>> THEN convertPerHostFirstRule(ing, o, i + 1, routes)
    ELSE LET r == firstRuleRules(ing)
         IN  IF r.status = "panic" THEN [status |-> "panic", routes |-> <<>>]
             ELSE convertPerHostFirstRule(ing, o, i + 1,
                      Append(routes,
                             [Name |-> ing.Name \o HTTPRouteSuffix \o <<"-">> \o Itoa(i),
                              Namespace |-> ing.Namespace,
                              Hostnames |-> <<ing.Rules[i].Host>>,
                              ParentRefs |-> parentRefs(ing, o),
                              Rules |-> r.rules]))

\* the loop of convertPerHost from source rule i on
RECURSIVE convertPerHostFrom(_, _, _, _)
convertPerHostFrom(ing, o, i, routes) ==
    IF i > Len(ing.Rules) THEN [status |-> "ok", routes |-> routes]
    ELSE IF ing.Rules[i].Host = <<>> THEN convertPerHostFrom(ing, o, i + 1, routes)
    ELSE LET r == IF ing.Rules[i].HTTP # None
                  THEN convertHTTPRules(ing, ing.Rules[i].HTTP[1].Paths)
                  ELSE [status |-> "ok", rules |-> <<>>]
         IN  IF r.status = "panic" THEN [status |-> "panic", routes |-> <<>>]
             ELSE convertPerHostFrom(ing, o, i + 1,
                      Append(routes,
                             [Name |-> ing.Name \o HTTPRouteSuffix \o <<"-">> \o Itoa(i),
                              Namespace |-> ing.Namespace,
                              Hostnames |-> <<ing.Rules[i].Host>>,
                              ParentRefs |-> parentRefs(ing, o),
                              Rules |-> r.rules]))

\* Converter.convertPerHost
convertPerHost(ing, o) == convertPerHostFrom(ing, o, 1, <<>>)

\* the keys of the groups map of convertPerPattern
groupKeys(ing) ==
    {extractHostPattern(ing.Rules[i].Host) :
        i \in {k \in 1..Len(ing.Rules) : ing.Rules[k].Host # <<>>}}

\* groups[pattern]: the hosts of the pattern, in source order
groupHosts(ing, pattern) ==
    SelectSeq(collectHostnames(ing.Rules), LAMBDA h : extractHostPattern(h) = pattern)

\* the orders in which Go may range over a map with these keys
mapOrders(S) ==
    {f \in [1..Cardinality(S) -> S] : \A x \in S : \E i \in 1..Cardinality(S) : f[i] = x}

\* the loop "for pattern, hosts := range groups", visiting the keys in `order`
RECURSIVE convertPerPatternFrom(_, _, _, _, _)
convertPerPatternFrom(ing, o, order, i, routes) ==
    IF i > Len(order) THEN [status |-> "ok", routes |-> routes]
    ELSE LET r == firstRuleRules(ing)
         IN  IF r.status = "panic" THEN [status |-> "panic", routes |-> <<>>]
             ELSE convertPerPatternFrom(ing, o, order, i + 1,
                      Append(routes,
                             [Name |-> ing.Name \o HTTPRouteSuffix \o <<"-">>
                                           \o sanitizeName(order[i]),
                              Namespace |-> ing.Namespace,
                              Hostnames |-> groupHosts(ing, order[i]),
                              ParentRefs |-> parentRefs(ing, o),
                              Rules |-> r.rules]))

\* Converter.convertPerPattern, for one iteration order of the groups map
convertPerPattern(ing, o, order) == convertPerPatternFrom(ing, o, order, 1, <<>>)

\* a result (routes, nil) of one of the split modes
withNilError(r) == [status |-> r.status, routes |-> r.routes, err |-> None]

\* Converter.convertIngress
convertIngress(ing, o, order) ==
    IF o.SplitMode = "single" THEN withNilError(convertSingle(ing, o))
    ELSE IF o.SplitMode = "per-host" THEN withNilError(convertPerHost(ing, o))
    ELSE IF o.SplitMode = "per-pattern"
         THEN withNilError(convertPerPattern(ing, o, order))
    ELSE [status |-> "error", routes |-> <<>>,
          err |-> Some([msg |-> "invalid split mode", mode |-> o.SplitMode])]

\* the loop of Convert from item i on; orders[i] is the map order of item i
RECURSIVE ConvertFrom(_, _, _, _, _)
ConvertFrom(list, o, orders, i, acc) ==
    IF i > Len(list) THEN [status |-> "ok", routes |-> acc, err |-> None]
    ELSE IF list[i].kind # "Ingress"
         THEN [status |-> "error", routes |-> <<>>,
               err |-> Some([msg |-> "invalid ingress type"])]
    ELSE LET r == convertIngress(list[i], o, orders[i])
         IN  IF r.status = "panic" THEN [status |-> "panic", routes |-> <<>>, err |-> None]
             ELSE IF r.status = "error"
                  THEN [status |-> "error", routes |-> <<>>,
                        err |-> Some([msg |-> "failed to convert ingress",
                                      name |-> list[i].Name, cause |-> r.err[1]])]
             ELSE ConvertFrom(list, o, orders, i + 1, acc \o r.routes)

\* Converter.Convert
Convert(list, o, orders) == ConvertFrom(list, o, orders, 1, <<>>)

\* the list a converter would leave behind if it stored the defaulted path
\* ("/" for an empty path) back into the source's path entries
sourceAfterConvertDefaultingPaths(list) ==
    LET path(p) == [p EXCEPT !.Path = IF @ = <<>> THEN <<"/">> ELSE @]
        http(h) == IF h = None THEN h
                   ELSE Some([Paths |-> [k \in 1..Len(h[1].Paths) |-> path(h[1].Paths[k])]])
        rule(r) == [r EXCEPT !.HTTP = http(@)]
        item(x) == IF x.kind = "Ingress"
                   THEN [x EXCEPT !.Rules = [j \in 1..Len(@) |-> rule(@[j])]]
                   ELSE x
    IN  [i \in 1..Len(list) |-> item(list[i])]

\* the objects behind the pointers of the list passed to Convert, after the
\* call: convertIngress and the functions under it read ing.Name,
\* ing.Namespace, ing.Labels, ing.Annotations and ing.Spec, copy the path into
\* the local pathValue before defaulting it, and assign to no field of ing
sourceAfterConvert(list) == list

(***************************************************************************)
(* pkg/validator                                                           *)
(*                                                                         *)
(* A finding is the message format with its arguments: the rule index, the *)
(* match/ref/filter index, the string printed with %s and, for the path    *)
(* conflict, the rule indices printed with %v.                             *)
(***************************************************************************)
Finding(msg, ruleIdx, idx, text, indices) ==
    [msg |-> msg, rule |-> ruleIdx, idx |-> idx, text |-> text, indices |-> indices]

addError(res, f) == [res EXCEPT !.Errors = Append(@, f)]
addWarning(res, f) == [res EXCEPT !.Warnings = Append(@, f)]

\* [a-z0-9]([-a-z0-9]*[a-z0-9])? matches the whole of s
isDNSLabel(s) ==
    /\ Len(s) > 0
    /\ \A i \in 1..Len(s) : s[i] \in Lower \cup Digit \cup {"-"}
    /\ s[1] # "-"
    /\ s[Len(s)] # "-"

\* nameRegex: ^[a-z0-9]([-a-z0-9]*[a-z0-9])?$
nameRegexMatch(name) == isDNSLabel(name)

\* a laxer pattern than hostnameRegex, one that takes upper-case letters as well:
\* the hostname matches once it is folded to lower case
hostnameRegexMatchAnyCase(hostname) ==
    LET folded == [i \in 1..Len(hostname) |-> ToLowerChar(hostname[i])]
        wild == Len(folded) >= 2 /\ folded[1] = "*" /\ folded[2] = "."
        rest == IF wild THEN SubSeq(folded, 3, Len(folded)) ELSE folded
        labels == Split(rest, ".")
    IN  \A i \in 1..Len(labels) : isDNSLabel(labels[i])

\* hostnameRegex: ^(\*\.)?<label>(\.<label>)*$
hostnameRegexMatch(hostname) ==
    LET wild == Len(hostname) >= 2 /\ hostname[1] = "*" /\ hostname[2] = "."
        rest == IF wild THEN SubSeq(hostname, 3, Len(hostname)) ELSE hostname
        labels == Split(rest, ".")
    IN  \A i \in 1..Len(labels) : isDNSLabel(labels[i])

MaxNameLength == 63

\* Validator.validateMetadata
validateMetadata(hr, res) ==
    LET named ==
            IF hr.Name = <<>>
            THEN addError(res, Finding("metadata.name is required", 0, 0, <<>>, <<>>))
            ELSE LET fmt == IF ~nameRegexMatch(hr.Name)
                            THEN addError(res, Finding("metadata.name must consist of lower case alphanumeric characters or '-'", 0, 0, <<>>, <<>>))
                            ELSE res
                 IN  IF Len(hr.Name) > MaxNameLength
                     THEN addError(fmt, Finding("metadata.name must be no more than 63 characters", 0, 0, <<>>, <<>>))
                     ELSE fmt
    IN  IF hr.Namespace = <<>>
        THEN addWarning(named, Finding("metadata.namespace not specified, will use default namespace", 0, 0, <<>>, <<>>))
        ELSE named

\* the loop of validateHostnames from hostname i on
RECURSIVE validateHostnamesFrom(_, _, _)
validateHostnamesFrom(hr, i, res) ==
    IF i > Len(hr.Hostnames) THEN res
    ELSE IF hr.Hostnames[i] = <<>>
         THEN validateHostnamesFrom(hr, i + 1,
                  addError(res, Finding("empty hostname not allowed", 0, 0, <<>>, <<>>)))
    ELSE IF ~hostnameRegexMatch(hr.Hostnames[i])
         THEN validateHostnamesFrom(hr, i + 1,
                  addError(res, Finding("invalid hostname format: %s", 0, 0,
                                        hr.Hostnames[i], <<>>)))
    ELSE validateHostnamesFrom(hr, i + 1, res)

\* Validator.validateHostnames
validateHostnames(hr, res) ==
    validateHostnamesFrom(hr, 1,
        IF Len(hr.Hostnames) = 0
        THEN addWarning(res, Finding("no hostnames specified, HTTPRoute will match all hostnames", 0, 0, <<>>, <<>>))
        ELSE res)

\* the loop of validateParentRefs from reference i on
RECURSIVE validateParentRefsFrom(_, _, _)
validateParentRefsFrom(hr, i, res) ==
    IF i > Len(hr.ParentRefs) THEN res
    ELSE LET ref == hr.ParentRefs[i]
             named == IF ref.Name = <<>>
                      THEN addError(res, Finding("parentRefs[%d].name is required", 0, i - 1, <<>>, <<>>))
                      ELSE res
             kinded == IF ref.Kind # None /\ ref.Kind[1] # "Gateway"
                       THEN addWarning(named, Finding("parentRefs[%d].kind is %s, expected Gateway", 0, i - 1, <<ref.Kind[1]>>, <<>>))
                       ELSE named
         IN  validateParentRefsFrom(hr, i + 1, kinded)

\* Validator.validateParentRefs
validateParentRefs(hr, res) ==
    IF Len(hr.ParentRefs) = 0
    THEN addError(res, Finding("at least one parentRef is required", 0, 0, <<>>, <<>>))
    ELSE validateParentRefsFrom(hr, 1, res)

\* Validator.validateMatch
validateMatch(match, ruleIdx, matchIdx, res) ==
    IF match.Path = None THEN res
    ELSE IF match.Path[1].Value = None
         THEN addError(res, Finding("rules[%d].matches[%d].path.value is required",
                                    ruleIdx, matchIdx, <<>>, <<>>))
    ELSE IF ~(Len(match.Path[1].Value[1]) > 0 /\ match.Path[1].Value[1][1] = "/")
         THEN addError(res, Finding("rules[%d].matches[%d].path.value must start with '/'",
                                    ruleIdx, matchIdx, <<>>, <<>>))
    ELSE res

\* Validator.validateBackendRef
validateBackendRef(ref, ruleIdx, refIdx, res) ==
    LET named == IF ref.Name = <<>>
                 THEN addError(res, Finding("rules[%d].backendRefs[%d].name is required",
                                            ruleIdx, refIdx, <<>>, <<>>))
                 ELSE res
        ported == IF ref.Port = None
                  THEN addError(named, Finding("rules[%d].backendRefs[%d].port is required",
                                               ruleIdx, refIdx, <<>>, <<>>))
                  ELSE named
    IN  IF ref.Weight # None /\ ref.Weight[1] < 0
        THEN addError(ported, Finding("rules[%d].backendRefs[%d].weight must be >= 0",
                                      ruleIdx, refIdx, <<>>, <<>>))
        ELSE ported

\* the number of leading decimal digits of a string
RECURSIVE digitPrefixLen(_)
digitPrefixLen(s) ==
    IF Len(s) > 0 /\ s[1] \in Digit THEN 1 + digitPrefixLen(Tail(s)) ELSE 0

DurationUnits == {<<"h">>, <<"m">>, <<"s">>, <<"m", "s">>}

\* isValidDuration: ^[0-9]+(h|m|s|ms)$
isValidDuration(duration) ==
    /\ digitPrefixLen(duration) > 0
    /\ SubSeq(duration, digitPrefixLen(duration) + 1, Len(duration)) \in DurationUnits

SecondsPerHour == 3600
SecondsPerMinute == 60
MillisPerSecond == 1000

\* parseDuration: whole seconds, 0 when the format does not match
parseDuration(duration) ==
    IF ~isValidDuration(duration) THEN 0
    ELSE LET value == DigitsVal(SubSeq(duration, 1, digitPrefixLen(duration)))
             unit == SubSeq(duration, digitPrefixLen(duration) + 1, Len(duration))
         IN  CASE unit = <<"h">> -> value * SecondsPerHour
               [] unit = <<"m">> -> value * SecondsPerMinute
               [] unit = <<"s">> -> value
               [] unit = <<"m", "s">> -> value \div MillisPerSecond

\* Validator.validateTimeouts
validateTimeouts(timeouts, ruleIdx, res) ==
    LET ordered ==
            IF timeouts.Request # None /\ timeouts.BackendRequest # None
            THEN LET requestSec == parseDuration(timeouts.Request[1])
                     backendSec == parseDuration(timeouts.BackendRequest[1])
                 IN  IF requestSec > 0 /\ backendSec > 0 /\ backendSec > requestSec
                     THEN addError(res, Finding("rules[%d].timeouts.backendRequest (%s) must be <= request (%s)",
                                                ruleIdx, 0,
                                                <<timeouts.BackendRequest[1], timeouts.Request[1]>>, <<>>))
                     ELSE res
            ELSE res
        req == IF timeouts.Request # None /\ ~isValidDuration(timeouts.Request[1])
               THEN addError(ordered, Finding("rules[%d].timeouts.request: invalid duration format",
                                              ruleIdx, 0, <<>>, <<>>))
               ELSE ordered
    IN  IF timeouts.BackendRequest # None /\ ~isValidDuration(timeouts.BackendRequest[1])
        THEN addError(req, Finding("rules[%d].timeouts.backendRequest: invalid duration format",
                                   ruleIdx, 0, <<>>, <<>>))
        ELSE req

\* Validator.validateFilter
validateFilter(filter, ruleIdx, filterIdx, res) ==
    IF filter.Type = "URLRewrite" /\ filter.URLRewrite = None
    THEN addError(res, Finding("rules[%d].filters[%d]: URLRewrite is required for type URLRewrite",
                               ruleIdx, filterIdx, <<>>, <<>>))
    ELSE IF filter.Type = "RequestRedirect" /\ filter.RequestRedirect = None
    THEN addError(res, Finding("rules[%d].filters[%d]: RequestRedirect is required for type RequestRedirect",
                               ruleIdx, filterIdx, <<>>, <<>>))
    ELSE res

\* the loops over rule.Matches, rule.BackendRefs and rule.Filters
RECURSIVE validateMatchesFrom(_, _, _, _)
validateMatchesFrom(rule, ruleIdx, j, res) ==
    IF j > Len(rule.Matches) THEN res
    ELSE validateMatchesFrom(rule, ruleIdx, j + 1,
                             validateMatch(rule.Matches[j], ruleIdx, j - 1, res))

RECURSIVE validateBackendRefsFrom(_, _, _, _)
validateBackendRefsFrom(rule, ruleIdx, j, res) ==
    IF j > Len(rule.BackendRefs) THEN res
    ELSE validateBackendRefsFrom(rule, ruleIdx, j + 1,
                                 validateBackendRef(rule.BackendRefs[j], ruleIdx, j - 1, res))

RECURSIVE validateFiltersFrom(_, _, _, _)
validateFiltersFrom(rule, ruleIdx, j, res) ==
    IF j > Len(rule.Filters) THEN res
    ELSE validateFiltersFrom(rule, ruleIdx, j + 1,
                             validateFilter(rule.Filters[j], ruleIdx, j - 1, res))

\* the body of the loop of validateRules for the rule with index ruleIdx
validateRule(rule, ruleIdx, res) ==
    LET noMatch == IF Len(rule.Matches) = 0
                   THEN addWarning(res, Finding("rules[%d]: no matches specified, will match all requests",
                                                ruleIdx, 0, <<>>, <<>>))
                   ELSE res
        matched == validateMatchesFrom(rule, ruleIdx, 1, noMatch)
        noRef == IF Len(rule.BackendRefs) = 0
                 THEN addError(matched, Finding("rules[%d]: at least one backendRef is required",
                                                ruleIdx, 0, <<>>, <<>>))
                 ELSE matched
        refd == validateBackendRefsFrom(rule, ruleIdx, 1, noRef)
        timed == IF rule.Timeouts # None
                 THEN validateTimeouts(rule.Timeouts[1], ruleIdx, refd)
                 ELSE refd
    IN  validateFiltersFrom(rule, ruleIdx, 1, timed)

RECURSIVE validateRulesFrom(_, _, _)
validateRulesFrom(hr, i, res) ==
    IF i > Len(hr.Rules) THEN res
    ELSE validateRulesFrom(hr, i + 1, validateRule(hr.Rules[i], i - 1, res))

\* the matches checkPathConflicts records, as <<rule index, match>>, in order
RECURSIVE recordedMatchesFrom(_, _, _)
recordedMatchesFrom(hr, i, j) ==
    IF i > Len(hr.Rules) THEN <<>>
    ELSE IF j > Len(hr.Rules[i].Matches) THEN recordedMatchesFrom(hr, i + 1, 1)
    ELSE IF hr.Rules[i].Matches[j].Path # None /\ hr.Rules[i].Matches[j].Path[1].Value # None
         THEN <<<<i - 1, hr.Rules[i].Matches[j]>>>> \o recordedMatchesFrom(hr, i, j + 1)
    ELSE recordedMatchesFrom(hr, i, j + 1)

\* fmt.Sprintf("%s:%s", *match.Path.Type, *match.Path.Value); the type is
\* one of the PathMatchType names, kept as one element
conflictKey(match) == <<match.Path[1].Type[1], ":">> \o match.Path[1].Value[1]

\* the keys of the paths map
conflictKeys(hr) ==
    LET rec == recordedMatchesFrom(hr, 1, 1)
    IN  {conflictKey(rec[n][2]) : n \in {k \in 1..Len(rec) : rec[k][2].Path[1].Type # None}}

\* paths[key]: the rule index of every recorded match with the key
pathsOfKey(hr, key) ==
    LET rec == recordedMatchesFrom(hr, 1, 1)
        mine == SelectSeq(rec, LAMBDA e : conflictKey(e[2]) = key)
    IN  [n \in 1..Len(mine) |-> mine[n][1]]

\* the loop "for path, ruleIndices := range paths", visiting the keys in `order`
RECURSIVE conflictWarningsFrom(_, _, _, _)
conflictWarningsFrom(hr, order, n, res) ==
    IF n > Len(order) THEN res
    ELSE conflictWarningsFrom(hr, order, n + 1,
             IF Len(pathsOfKey(hr, order[n])) > 1
             THEN addWarning(res, Finding("path %s appears in multiple rules: %v", 0, 0,
                                          order[n], pathsOfKey(hr, order[n])))
             ELSE res)

\* Validator.checkPathConflicts, for one iteration order of the paths map;
\* a recorded match with a nil path type is a nil dereference
checkPathConflicts(hr, order, res) ==
    LET rec == recordedMatchesFrom(hr, 1, 1)
    IN  IF \E n \in 1..Len(rec) : rec[n][2].Path[1].Type = None
        THEN [status |-> "panic", Errors |-> <<>>, Warnings |-> <<>>]
        ELSE conflictWarningsFrom(hr, order, 1, res)

\* Validator.validateRules
validateRules(hr, order, res) ==
    IF Len(hr.Rules) = 0
    THEN addError(res, Finding("at least one rule is required", 0, 0, <<>>, <<>>))
    ELSE checkPathConflicts(hr, order, validateRulesFrom(hr, 1, res))

\* Validator.validateHTTPRoute; `order` is the iteration order of the paths map
validateHTTPRoute(hr, order) ==
    validateRules(hr, order,
        validateParentRefs(hr,
            validateHostnames(hr,
                validateMetadata(hr, [status |-> "ok", Errors |-> <<>>, Warnings |-> <<>>]))))

\* a validator that, when strict, reports its warnings as errors
validateEscalating(v, hr, order) ==
    LET res == validateHTTPRoute(hr, order)
    IN  IF v.strict /\ res.status = "ok"
        THEN [status |-> "ok", Errors |-> res.Errors \o res.Warnings, Warnings |-> <<>>]
        ELSE res

\* v.validateHTTPRoute(hr) for the Validator v made by NewValidator(strict):
\* no validation step reads v.strict
validateWith(v, hr, order) == validateHTTPRoute(hr, order)

\* runValidate after ValidateFile has returned the result of one document:
\* the command fails on errors, and on warnings when --strict is given
runValidate(isStrict, res) ==
    LET hasErrors == Len(res.Errors) > 0
        hasWarnings == Len(res.Warnings) > 0
    IN  IF res.status = "panic" THEN "panic"
        ELSE IF ~hasErrors /\ ~hasWarnings THEN "passed"
        ELSE IF hasErrors \/ (isStrict /\ hasWarnings) THEN "failed"
        ELSE "passed"

(***************************************************************************)
(* The batch command (cmd/convert.go).                                     *)
(*                                                                         *)
(* A namespace of the cluster is its name, its Ingresses and what the      *)
(* environment does in it: "ok", or a failure of ListIngresses, of the     *)
(* MkdirAll of its subdirectory, or of the creation of its files.  The     *)
(* outcome keeps the two counters, the Ingresses handed to Convert and the *)
(* files created, in order.                                                *)
(***************************************************************************)
\* c.Convert(ctx, []interface{}{ingress}): runBatch only looks at the error
\* and at the number of routes, which no map order changes
convertOne(ing, o) ==
    Convert(<<ing>>, o, <<CHOOSE f \in mapOrders(groupKeys(ing)) : TRUE>>)

\* the body of the loop "for _, ingress := range ingresses" for Ingress i, once
\* Convert has returned r: a panic ends the run, an error counts one failure,
\* and each route counts as written or, when its file cannot be created, failed
batchIngress(ns, i, acc, r) ==
    LET tried == [acc EXCEPT !.attempted = Append(@, <<ns.name, ns.ingresses[i].Name>>)]
    IN  IF r.status = "panic" THEN [tried EXCEPT !.status = "panic"]
        ELSE IF r.status = "error" THEN [tried EXCEPT !.totalFailed = @ + 1]
        ELSE IF ns.env = "createFails"
        THEN [tried EXCEPT !.totalFailed = @ + Len(r.routes)]
        ELSE [tried EXCEPT !.totalConverted = @ + Len(r.routes),
                           !.files = @ \o [k \in 1..Len(r.routes) |->
                                              <<ns.name, ns.ingresses[i].Name, k>>]]

\* the loop "for _, ingress := range ingresses" from Ingress i on
RECURSIVE batchNamespaceFrom(_, _, _, _)
batchNamespaceFrom(ns, o, i, acc) ==
    IF i > Len(ns.ingresses) \/ acc.status = "panic" THEN acc
    ELSE batchNamespaceFrom(ns, o, i + 1,
                            batchIngress(ns, i, acc, convertOne(ns.ingresses[i], o)))

\* the loop "for _, ns := range namespaces" from namespace n on
RECURSIVE batchFrom(_, _, _, _)
batchFrom(namespaces, o, n, acc) ==
    IF n > Len(namespaces) \/ acc.status = "panic" THEN acc
    ELSE IF namespaces[n].env \in {"listFails", "mkdirFails"}
            \/ Len(namespaces[n].ingresses) = 0
         THEN batchFrom(namespaces, o, n + 1, acc)
    ELSE batchFrom(namespaces, o, n + 1, batchNamespaceFrom(namespaces[n], o, 1, acc))

\* runBatch once the client, the namespaces and the output directory are there
runBatch(namespaces, o) ==
    batchFrom(namespaces, o, 1,
              [status |-> "done", totalConverted |-> 0, totalFailed |-> 0,
               attempted |-> <<>>, files |-> <<>>])

(***************************************************************************)
(* The analyzer (pkg/analyzer).                                            *)
(***************************************************************************)
\* contains: the slice holds the item
contains(slice, item) == \E i \in 1..Len(slice) : slice[i] = item

ReadyMax == 10
MostlyReadyMax == 25

\* the score ladder with strict comparisons
scoreReadinessStrict(s) ==
    IF s < ReadyMax THEN "READY"
    ELSE IF s < MostlyReadyMax THEN "MOSTLY_READY"
    ELSE "COMPLEX"

\* assessReadiness, the score-based part
scoreReadiness(s) ==
    IF s <= ReadyMax THEN "READY"
    ELSE IF s <= MostlyReadyMax THEN "MOSTLY_READY"
    ELSE "COMPLEX"

\* the blockers of assessReadiness
Blockers == <<"CUSTOM_SNIPPET", "SERVER_SNIPPET">>

\* a readiness that lets a low score win over the blockers
assessReadinessScoreFirst(s, fs) ==
    IF s <= ReadyMax THEN "READY"
    ELSE IF \E b \in 1..Len(Blockers) : contains(fs, Blockers[b])
    THEN "MANUAL_REVIEW_REQUIRED"
    ELSE scoreReadiness(s)

\* Analyzer.assessReadiness
assessReadiness(s, fs) ==
    IF \E b \in 1..Len(Blockers) : contains(fs, Blockers[b])
    THEN "MANUAL_REVIEW_REQUIRED"
    ELSE scoreReadiness(s)

\* a complexityMap without the CANARY_WEIGHT entry
complexityMapNoCanaryWeight(feature) ==
    CASE feature = "URL_REWRITE" -> 5
      [] feature = "CUSTOM_SNIPPET" -> 10
      [] feature = "SERVER_SNIPPET" -> 10
      [] feature = "CANARY" -> 7
      [] feature = "MIRRORING" -> 8
      [] feature = "AUTHENTICATION" -> 6
      [] feature = "CORS" -> 4
      [] feature = "BACKEND_PROTOCOL" -> 3
      [] feature = "PROXY_READ_TIMEOUT" -> 2
      [] feature = "SSL_REDIRECT" -> 2
      [] OTHER -> 0

\* complexityMap[feature], 0 for a feature without an entry
complexityMap(feature) ==
    CASE feature = "URL_REWRITE" -> 5
      [] feature = "CUSTOM_SNIPPET" -> 10
      [] feature = "SERVER_SNIPPET" -> 10
      [] feature = "CANARY" -> 7
      [] feature = "CANARY_WEIGHT" -> 7
      [] feature = "MIRRORING" -> 8
      [] feature = "AUTHENTICATION" -> 6
      [] feature = "CORS" -> 4
      [] feature = "BACKEND_PROTOCOL" -> 3
      [] feature = "PROXY_READ_TIMEOUT" -> 2
      [] feature = "SSL_REDIRECT" -> 2
      [] OTHER -> 0

\* the loop "for _, feature := range features" of calculateComplexity
RECURSIVE featureComplexityFrom(_, _, _)
featureComplexityFrom(fs, i, total) ==
    IF i > Len(fs) THEN total
    ELSE featureComplexityFrom(fs, i + 1, total + complexityMap(fs[i]))

\* Analyzer.calculateComplexity
calculateComplexity(ing, fs) ==
    featureComplexityFrom(fs, 1, Len(ing.Rules) * 2 + Len(ing.TLS) * 3)

\* getIngressClass: spec.ingressClassName, else the legacy annotation, else ""
getIngressClass(ing) ==
    IF ing.IngressClassName # None THEN ing.IngressClassName[1]
    ELSE IF IngressClassKey \in DOMAIN ing.Annotations THEN ing.Annotations[IngressClassKey]
    ELSE <<>>

\* strings.Contains(s, substr)
stringsContains(s, substr) ==
    \E i \in 0..(Len(s) - Len(substr)) : SubSeq(s, i + 1, i + Len(substr)) = substr

\* Analyzer.identifyIssues: the issues are the message formats with their
\* %s argument
identifyIssues(ing, fs) ==
    LET snippets == IF contains(fs, "CUSTOM_SNIPPET") \/ contains(fs, "SERVER_SNIPPET")
                    THEN <<[msg |-> "Custom NGINX snippets require manual review and cannot be directly migrated",
                            arg |-> <<>>]>>
                    ELSE <<>>
        class == getIngressClass(ing)
        foreign == IF class # <<>> /\ ~stringsContains(class, <<"n", "g", "i", "n", "x">>)
                   THEN <<[msg |-> "Non-NGINX Ingress class detected: %s", arg |-> class]>>
                   ELSE <<>>
        deprecated == IF IngressClassKey \in DOMAIN ing.Annotations
                      THEN <<[msg |-> "Using deprecated annotation: %s (use spec.ingressClassName instead)",
                              arg |-> IngressClassKey]>>
                      ELSE <<>>
    IN  snippets \o foreign \o deprecated

\* the hostMap of analyzeIngress: HostCount is the number of its keys
hostCount(ing) ==
    Cardinality({ing.Rules[i].Host : i \in {k \in 1..Len(ing.Rules) : ing.Rules[k].Host # <<>>}})

\* the fields of the AnalysisResult that generateRecommendations reads, as
\* analyzeIngress sets them
analysisResult(ing, fs) ==
    [HostCount |-> hostCount(ing), TLSEnabled |-> Len(ing.TLS) > 0, DetectedFeatures |-> fs]

\* Analyzer.generateRecommendations
generateRecommendations(ing, result) ==
    LET split == IF result.HostCount > 5
                 THEN <<"Consider using 'per-pattern' split mode for better organization">>
                 ELSE IF result.HostCount > 1
                 THEN <<"Use 'single' split mode (default) for optimal Gateway API resource usage">>
                 ELSE <<>>
        timeout == IF contains(result.DetectedFeatures, "PROXY_READ_TIMEOUT")
                   THEN <<"Both timeouts.request and timeouts.backendRequest will be set for complete timeout control">>
                   ELSE <<>>
        canary == IF contains(result.DetectedFeatures, "CANARY")
                  THEN <<"Canary deployments will be converted to HTTPRoute backendRefs with traffic splitting">>
                  ELSE <<>>
        tls == IF result.TLSEnabled
               THEN <<"Ensure Gateway has matching HTTPS listeners configured">>
               ELSE <<>>
    IN  split \o timeout \o canary \o tls

\* the Ingress behind the pointer handed to calculateComplexity,
\* identifyIssues and generateRecommendations, after the call: the three read
\* ingress.Annotations and ingress.Spec and assign to no field of it
sourceAfterAnalysis(list) == list

(***************************************************************************)
(* Inputs.                                                                 *)
(***************************************************************************)
SeqsUpTo(S, n) == UNION {[1..k -> S] : k \in 0..n}

Service(name) == Some([Name |-> name, Port |-> 80])

PathValues == {<<"/">>, <<"/", "a">>}
ServiceNames == {<<"s">>, <<"t">>}

Entry(path, type, name) ==
    [Path |-> path, PathType |-> Some(type), Backend |-> [Service |-> Service(name)]]

\* a path whose backend is a resource backend: Backend.Service is nil
ResourceEntry ==
    [Path |-> <<"/">>, PathType |-> Some("Prefix"), Backend |-> [Service |-> None]]

\* networkingv1.HTTPIngressPath
PathEntries ==
    {Entry(p, t, n) : p \in PathValues, t \in {"Prefix", "Exact"}, n \in ServiceNames}
    \cup {ResourceEntry}

HostA == <<"a", ".", "x", ".", "c">>
HostB == <<"b", ".", "x", ".", "c">>
HostC == <<"a", ".", "y", ".", "c">>
Hosts == {<<>>, HostA, HostB, HostC}

\* rule.HTTP: nil, a path list with a repeated (path, backend) pair, or a
\* path list with a resource backend
HTTPValues ==
    {None,
     Some([Paths |-> <<Entry(<<"/">>, "Prefix", <<"s">>),
                       Entry(<<"/", "a">>, "Exact", <<"t">>),
                       Entry(<<"/">>, "Exact", <<"s">>)>>]),
     Some([Paths |-> <<ResourceEntry>>])}

DefaultBackends ==
    {None, Some([Service |-> Service(<<"d">>)]), Some([Service |-> None])}

NoAnnotations == <<>>
ReadTimeout60 == (ReadTimeoutKey :> <<"6", "0">>)

Ingress(name, anns, rs, dflt) ==
    [kind |-> "Ingress", Name |-> name, Namespace |-> <<"n", "s">>,
     Annotations |-> anns, IngressClassName |-> None,
     Rules |-> rs, DefaultBackend |-> dflt]

\* a list item that is not a *networkingv1.Ingress
NotIngress == [kind |-> "other"]

SourceRules == SeqsUpTo([Host : Hosts, HTTP : HTTPValues], MaxRules)

\* one Ingress with up to MaxRules rules
SingleInputs ==
    {<<Ingress(<<"w">>, ReadTimeout60, rs, d)>> : rs \in SourceRules, d \in DefaultBackends}

OneRule(host, http) == <<[Host |-> host, HTTP |-> http]>>

BatchItems ==
    {NotIngress,
     Ingress(<<"u">>, NoAnnotations,
             OneRule(HostA, Some([Paths |-> <<Entry(<<"/">>, "Prefix", <<"s">>)>>])), None),
     Ingress(<<"v">>, NoAnnotations, OneRule(HostC, None), None),
     Ingress(<<"r">>, NoAnnotations, OneRule(HostB, Some([Paths |-> <<ResourceEntry>>])), None)}

\* lists of two or more items
BatchInputs == SeqsUpTo(BatchItems, MaxIngresses) \ SeqsUpTo(BatchItems, 1)

SplitModes == {"single", "per-host", "per-pattern", "per-namespace"}
OptionValues == [SplitMode : SplitModes, GatewayName : {<<>>, <<"g", "w">>}]

NoCall == [status |-> "none", routes |-> <<>>, err |-> None]
NoRules == [status |-> "none", rules |-> <<>>]
NoTimeouts == [called |-> FALSE, value |-> None]
NoRoute == [Name |-> <<>>, Namespace |-> <<>>, Hostnames |-> <<>>,
            ParentRefs |-> <<>>, Rules |-> <<>>]
NoResult == [status |-> "none", Errors |-> <<>>, Warnings |-> <<>>]
NotRun == "none"
NoReadiness == "none"
NoAnalysis == [op |-> "none"]
NoBatch == [status |-> "none"]
NoName == [called |-> FALSE, value |-> <<>>]

\* the validator has not been given anything
validatorIdle ==
    /\ strict = FALSE
    /\ route = NoRoute
    /\ validation = NoResult
    /\ prevValidation = NoResult
    /\ cmdResult = NotRun

\* the analyzer has not been given anything
analyzerIdle ==
    /\ score = 0
    /\ features = <<>>
    /\ readiness = NoReadiness
    /\ analysis = NoAnalysis

\* the batch command has not been run
batchIdle ==
    /\ cluster = <<>>
    /\ batch = NoBatch

\* sanitizeName has not been called directly
sanitizerIdle ==
    /\ rawName = <<>>
    /\ cleanName = NoName

\* the map orders Go may pick for each item of the list
OrderChoices(list) ==
    LET keys(i) == IF list[i].kind = "Ingress" THEN groupKeys(list[i]) ELSE {}
        all == UNION {mapOrders(keys(i)) : i \in 1..Len(list)}
    IN  {f \in [1..Len(list) -> all] : \A i \in 1..Len(list) : f[i] \in mapOrders(keys(i))}

(***************************************************************************)
(* Spec: Convert on a list of source resources, called any number of times *)
(***************************************************************************)
Init ==
    /\ ingresses \in SingleInputs \cup BatchInputs
    /\ opts \in OptionValues
    /\ httpRoutes = NoCall
    /\ prevRoutes = NoCall
    /\ rulesOut = NoRules
    /\ timeoutsOut = NoTimeouts
    /\ validatorIdle
    /\ analyzerIdle
    /\ batchIdle
    /\ sanitizerIdle

ConvertCall ==
    /\ \E orders \in OrderChoices(ingresses) :
          httpRoutes' = Convert(ingresses, opts, orders)
    /\ prevRoutes' = httpRoutes
    /\ ingresses' = sourceAfterConvert(ingresses)
    /\ UNCHANGED <<opts, rulesOut, timeoutsOut, valVars, anVars, sanVars, batchVars>>

Next == ConvertCall

Spec == Init /\ [][Next]_vars

(***************************************************************************)
(* SpecRules: convertHTTPRules on one path list                            *)
(***************************************************************************)
InitRules ==
    /\ ingresses \in {<<Ingress(<<"w">>, ReadTimeout60,
                                  OneRule(HostA, Some([Paths |-> ps])), None)>> :
                         ps \in SeqsUpTo(PathEntries, MaxPaths)}
    /\ opts = [SplitMode |-> "single", GatewayName |-> <<>>]
    /\ httpRoutes = NoCall
    /\ prevRoutes = NoCall
    /\ rulesOut = NoRules
    /\ timeoutsOut = NoTimeouts
    /\ validatorIdle
    /\ analyzerIdle
    /\ batchIdle
    /\ sanitizerIdle

ConvertHTTPRulesCall ==
    /\ rulesOut' = convertHTTPRules(ingresses[1], ingresses[1].Rules[1].HTTP[1].Paths)
    /\ UNCHANGED <<ingresses, opts, httpRoutes, prevRoutes, timeoutsOut, valVars, anVars, sanVars, batchVars>>

NextRules == ConvertHTTPRulesCall

SpecRules == InitRules /\ [][NextRules]_vars

(***************************************************************************)
(* SpecTimeouts: extractTimeouts on one annotation map                     *)
(***************************************************************************)
TimeoutChars == {"0", "3", "6", "-", "x"}
TimeoutValues == SeqsUpTo(TimeoutChars, MaxAnnLen)

\* the annotation maps with any of the two timeout keys present
TimeoutAnnotations ==
    {NoAnnotations}
    \cup {(ReadTimeoutKey :> r) : r \in TimeoutValues}
    \cup {(SendTimeoutKey :> s) : s \in TimeoutValues}
    \cup {(ReadTimeoutKey :> r) @@ (SendTimeoutKey :> s) :
              r \in TimeoutValues, s \in TimeoutValues}

InitTimeouts ==
    /\ ingresses \in {<<Ingress(<<"w">>, a, <<>>, None)>> : a \in TimeoutAnnotations}
    /\ opts = [SplitMode |-> "single", GatewayName |-> <<>>]
    /\ httpRoutes = NoCall
    /\ prevRoutes = NoCall
    /\ rulesOut = NoRules
    /\ timeoutsOut = NoTimeouts
    /\ validatorIdle
    /\ analyzerIdle
    /\ batchIdle
    /\ sanitizerIdle

ExtractTimeoutsCall ==
    /\ timeoutsOut' = [called |-> TRUE, value |-> extractTimeouts(ingresses[1])]
    /\ UNCHANGED <<ingresses, opts, httpRoutes, prevRoutes, rulesOut, valVars, anVars, sanVars, batchVars>>

NextTimeouts == ExtractTimeoutsCall

SpecTimeouts == InitTimeouts /\ [][NextTimeouts]_vars

(***************************************************************************)
(* Claims about the converter.                                             *)
(***************************************************************************)
\* the path list given to convertHTTPRules in SpecRules
givenPaths == ingresses[1].Rules[1].HTTP[1].Paths

\* the (path value, backend service name) pair of entry i
pairAt(ps, i) == <<ps[i].Path, ps[i].Backend.Service[1].Name>>

\* the positions at which a pair occurs for the first time
firstOccurrences(ps) ==
    {i \in 1..Len(ps) : \A j \in 1..(i - 1) : pairAt(ps, j) # pairAt(ps, i)}

\* the n-th smallest element of a set of positions
nthOf(S, n) == CHOOSE i \in S : Cardinality({j \in S : j < i}) = n - 1

\* how often the pair of entry i occurs in the list
occurrences(ps, i) == Cardinality({j \in 1..Len(ps) : pairAt(ps, j) = pairAt(ps, i)})

\* C1: for a path list whose entries all have a backend service, the
\* synthesized rule list has exactly one rule per distinct (path value,
\* backend service name) pair, and the n-th rule is the one built from the
\* first occurrence of the n-th distinct pair, in path-list order.
C1_DedupCount ==
    rulesOut.status # "none" /\ (\A i \in 1..Len(givenPaths) :
                                    givenPaths[i].Backend.Service # None)
    => /\ rulesOut.status = "ok"
       /\ Len(rulesOut.rules) = Cardinality({pairAt(givenPaths, i) : i \in 1..Len(givenPaths)})
       /\ \A n \in 1..Len(rulesOut.rules) :
             rulesOut.rules[n] =
                 ruleOfPath(ingresses[1], givenPaths[nthOf(firstOccurrences(givenPaths), n)])

\* a list of k = 2 distinct pairs, each repeated m = 2 times, whose repeats
\* differ from the first occurrence in the path type, has been synthesized
C1_Witness ==
    /\ rulesOut.status = "ok"
    /\ Len(givenPaths) = 4
    /\ Len(rulesOut.rules) = 2
    /\ \A i \in 1..4 : occurrences(givenPaths, i) = 2
    /\ givenPaths[1].PathType # givenPaths[4].PathType
    /\ pairAt(givenPaths, 1) = pairAt(givenPaths, 4)

\* the non-empty hostnames of the rules of a source resource
nonEmptyHosts(ing) ==
    {ing.Rules[i].Host : i \in {k \in 1..Len(ing.Rules) : ing.Rules[k].Host # <<>>}}

\* Convert has returned normally for a list of one source resource
returnedForOne ==
    /\ Len(ingresses) = 1
    /\ ingresses[1].kind = "Ingress"
    /\ httpRoutes.status = "ok"

\* C2: for a single source resource, per-host mode returns as many
\* resources as there are distinct non-empty hostnames, single mode returns
\* exactly 1, and per-pattern mode as many as there are distinct
\* last-two-label suffixes of the non-empty hostnames.
C2_Cardinality ==
    returnedForOne =>
        /\ opts.SplitMode = "per-host" =>
               Len(httpRoutes.routes) = Cardinality(nonEmptyHosts(ingresses[1]))
        /\ opts.SplitMode = "single" => Len(httpRoutes.routes) = 1
        /\ opts.SplitMode = "per-pattern" =>
               Len(httpRoutes.routes) =
                   Cardinality({extractHostPattern(h) : h \in nonEmptyHosts(ingresses[1])})

\* C3: a second call of Convert with the same source resources and the
\* same options returns the same outcome as the call before it.
C3_Deterministic ==
    prevRoutes.status # "none" => httpRoutes = prevRoutes

\* the whole seconds of a duration "<N>s" written by extractTimeouts
secondsOf(d) == Atoi(SubSeq(d, 1, Len(d) - 1)).val

\* C4: whenever extractTimeouts returns a non-nil Timeouts, request and
\* backendRequest are both set, are equal, and backendRequest <= request.
C4_TimeoutOrdering ==
    timeoutsOut.called /\ timeoutsOut.value # None =>
        LET t == timeoutsOut.value[1]
        IN  /\ t.Request # None
            /\ t.BackendRequest # None
            /\ t.BackendRequest[1][Len(t.BackendRequest[1])] = "s"
            /\ t.Request[1][Len(t.Request[1])] = "s"
            /\ secondsOf(t.BackendRequest[1]) <= secondsOf(t.Request[1])
            /\ t.BackendRequest = t.Request

\* both annotations are present with different non-negative integers, the
\* send-timeout the larger one, and extractTimeouts has returned a value
C4_Witness ==
    /\ timeoutsOut.called
    /\ timeoutsOut.value # None
    /\ DOMAIN ingresses[1].Annotations = {ReadTimeoutKey, SendTimeoutKey}
    /\ Atoi(ingresses[1].Annotations[ReadTimeoutKey]).ok
    /\ Atoi(ingresses[1].Annotations[SendTimeoutKey]).ok
    /\ 0 <= Atoi(ingresses[1].Annotations[ReadTimeoutKey]).val
    /\ Atoi(ingresses[1].Annotations[ReadTimeoutKey]).val
           < Atoi(ingresses[1].Annotations[SendTimeoutKey]).val

\* a sequence without its repeated elements, in first-seen order
RECURSIVE firstSeen(_)
firstSeen(s) ==
    IF Len(s) = 0 THEN <<>>
    ELSE LET init == firstSeen(SubSeq(s, 1, Len(s) - 1))
         IN  IF \E i \in 1..Len(init) : init[i] = s[Len(s)] THEN init
             ELSE Append(init, s[Len(s)])

\* C5: in single mode the hostname list of the generated resource holds
\* every distinct non-empty source rule hostname exactly once, in
\* first-seen order.
C5_SingleHostnames ==
    returnedForOne /\ opts.SplitMode = "single" =>
        httpRoutes.routes[1].Hostnames =
            firstSeen(SelectSeq([i \in 1..Len(ingresses[1].Rules) |->
                                     ingresses[1].Rules[i].Host],
                                LAMBDA h : h # <<>>))

\* the resources Convert returns for item i when it is converted on its own
aloneOutcome(i) ==
    Convert(<<ingresses[i]>>, opts, [k \in {1} |-> CHOOSE f \in mapOrders(
                IF ingresses[i].kind = "Ingress" THEN groupKeys(ingresses[i]) ELSE {}) : TRUE])

\* C6: when Convert returns for a list of several items, the target
\* resources of every item that converts are among the returned resources,
\* whether or not another item of the list failed.
C6_BatchIsolation ==
    Len(ingresses) >= 2 /\ httpRoutes.status \in {"ok", "error"} /\ opts.SplitMode \in
        {"single", "per-host", "per-pattern"} =>
        \A i \in 1..Len(ingresses) :
            aloneOutcome(i).status = "ok" =>
                \A k \in 1..Len(aloneOutcome(i).routes) :
                    \E n \in 1..Len(httpRoutes.routes) :
                        httpRoutes.routes[n] = aloneOutcome(i).routes[k]

\* a source resource with a path entry whose backend has no service
hasMissingBackend(ing) ==
    \E i \in 1..Len(ing.Rules) :
        /\ ing.Rules[i].HTTP # None
        /\ \E k \in 1..Len(ing.Rules[i].HTTP[1].Paths) :
              ing.Rules[i].HTTP[1].Paths[k].Backend.Service = None

\* C7: an unsupported split mode and a path entry without a backend
\* service are both answered by a returned conversion error that names the
\* offending resource, never by a crash or a produced resource.
C7_InputDefects ==
    httpRoutes.status # "none" /\ Len(ingresses) = 1 /\ ingresses[1].kind = "Ingress"
    /\ (opts.SplitMode \notin {"single", "per-host", "per-pattern"}
            \/ hasMissingBackend(ingresses[1]))
    => /\ httpRoutes.status = "error"
       /\ httpRoutes.routes = <<>>
       /\ httpRoutes.err[1].name = ingresses[1].Name

(***************************************************************************)
(* SpecValidator: validateHTTPRoute on one HTTPRoute, called any number of *)
(* times.                                                                  *)
(***************************************************************************)
UpperHost == <<"A", ".", "X", ".", "C">>
WildcardHost == <<"*", ".", "x", ".", "c">>
HyphenHost == <<"a", "-", ".", "c">>
EmptyLabelHost == <<"a", ".", ".", "c">>
ValHostnames == {HostA, UpperHost, WildcardHost, HyphenHost, EmptyLabelHost, <<>>}

GatewayRef == [Name |-> <<"g", "w">>, Kind |-> None]
ParentRefValues ==
    {<<>>, <<GatewayRef>>, <<[Name |-> <<>>, Kind |-> Some("Gateway")]>>,
     <<[Name |-> <<"g", "w">>, Kind |-> Some("Service")]>>}

Match(type, value) == [Path |-> Some([Type |-> type, Value |-> value])]
CleanMatch == Match(Some("PathPrefix"), Some(<<"/">>))
CleanBackendRef == [Name |-> <<"s">>, Port |-> Some(80), Weight |-> Some(1)]
BadBackendRef == [Name |-> <<>>, Port |-> None, Weight |-> Some(-1)]

RouteRule(matches, refs, filters, tmo) ==
    [Matches |-> matches, BackendRefs |-> refs, Filters |-> filters, Timeouts |-> tmo]

CleanRule == RouteRule(<<CleanMatch>>, <<CleanBackendRef>>, <<>>, None)

Route(name, ns, hosts, refs, rs) ==
    [Name |-> name, Namespace |-> ns, Hostnames |-> hosts, ParentRefs |-> refs, Rules |-> rs]

\* routes that differ in metadata, hostnames and parent references
MetadataRoutes ==
    {Route(n, ns, hs, refs, rs) :
        n \in {<<"r">>, <<>>, <<"R">>}, ns \in {<<"n", "s">>, <<>>},
        hs \in SeqsUpTo(ValHostnames, MaxHostnames),
        refs \in ParentRefValues, rs \in {<<>>, <<CleanRule>>}}

DurationNumbers == {<<"0">>, <<"1">>, <<"3", "0", "0">>, <<"6", "0", "0">>,
                    <<"1", "5", "0", "0">>}
Durations ==
    {n \o u : n \in DurationNumbers, u \in DurationUnits}
    \cup {<<"i", "n", "v", "a", "l", "i", "d">>, <<"5">>, <<"s">>}
OptDurations == {None} \cup {Some(d) : d \in Durations}

\* routes with one rule that differ in its timeouts and in having a match
TimeoutRoutes ==
    {Route(<<"r">>, <<"n", "s">>, <<HostA>>, <<GatewayRef>>,
           <<RouteRule(ms, <<CleanBackendRef>>, <<>>, t)>>) :
        ms \in {<<>>, <<CleanMatch>>},
        t \in {None} \cup {Some(x) : x \in [Request : OptDurations,
                                           BackendRequest : OptDurations]}}

ConflictMatches ==
    {Match(Some("Exact"), Some(<<"/">>)), Match(Some("PathPrefix"), Some(<<"/">>)),
     Match(Some("PathPrefix"), Some(<<"/", "a">>))}

\* routes with one or more rules that differ in their well-formed matches
ConflictRoutes ==
    {Route(<<"r">>, <<"n", "s">>, <<HostA>>, <<GatewayRef>>, rs) :
        rs \in SeqsUpTo({RouteRule(ms, <<CleanBackendRef>>, <<>>, None) :
                            ms \in SeqsUpTo(ConflictMatches, MaxMatches)}, MaxValRules)
               \ {<<>>}}

OddMatches ==
    {CleanMatch, [Path |-> None], Match(Some("Exact"), None),
     Match(Some("Exact"), Some(<<"a">>)), Match(None, Some(<<"/">>))}

OddFilters ==
    {<<>>,
     <<[Type |-> "URLRewrite", URLRewrite |-> None, RequestRedirect |-> None],
       [Type |-> "RequestRedirect", URLRewrite |-> None, RequestRedirect |-> None]>>}

\* routes with one rule that differ in malformed matches, refs and filters
OddRoutes ==
    {Route(<<"r">>, <<"n", "s">>, <<HostA>>, <<GatewayRef>>, <<RouteRule(ms, refs, fs, None)>>) :
        ms \in SeqsUpTo(OddMatches, MaxMatches),
        refs \in {<<>>, <<CleanBackendRef>>, <<BadBackendRef>>},
        fs \in OddFilters}

InitValidator ==
    /\ ingresses = <<>>
    /\ opts = [SplitMode |-> "single", GatewayName |-> <<>>]
    /\ httpRoutes = NoCall
    /\ prevRoutes = NoCall
    /\ rulesOut = NoRules
    /\ timeoutsOut = NoTimeouts
    /\ strict \in BOOLEAN
    /\ route \in MetadataRoutes \cup TimeoutRoutes \cup ConflictRoutes \cup OddRoutes
    /\ validation = NoResult
    /\ prevValidation = NoResult
    /\ cmdResult = NotRun
    /\ analyzerIdle
    /\ batchIdle
    /\ sanitizerIdle

ValidateCall ==
    /\ \E order \in mapOrders(conflictKeys(route)) :
          validation' = validateWith([strict |-> strict], route, order)
    /\ prevValidation' = validation
    /\ UNCHANGED <<convVars, strict, route, cmdResult, anVars, sanVars, batchVars>>

NextValidator == ValidateCall

SpecValidator == InitValidator /\ [][NextValidator]_vars

(***************************************************************************)
(* Claims about the validator.                                             *)
(***************************************************************************)
\* the milliseconds of a well-formed duration
millisOf(d) ==
    LET n == digitPrefixLen(d)
        value == DigitsVal(SubSeq(d, 1, n))
        unit == SubSeq(d, n + 1, Len(d))
    IN  IF unit = <<"h">> THEN value * 3600000
        ELSE IF unit = <<"m">> THEN value * 60000
        ELSE IF unit = <<"s">> THEN value * 1000
        ELSE value

wholeSeconds(d) == millisOf(d) \div 1000

orderingErrors(res) ==
    SelectSeq(res.Errors, LAMBDA f :
        f.msg = "rules[%d].timeouts.backendRequest (%s) must be <= request (%s)")

\* the validated route has one rule whose timeouts are both well-formed
bothWellFormed ==
    /\ validation.status = "ok"
    /\ Len(route.Rules) = 1
    /\ route.Rules[1].Timeouts # None
    /\ route.Rules[1].Timeouts[1].Request # None
    /\ route.Rules[1].Timeouts[1].BackendRequest # None
    /\ isValidDuration(route.Rules[1].Timeouts[1].Request[1])
    /\ isValidDuration(route.Rules[1].Timeouts[1].BackendRequest[1])

\* C8: for a rule whose timeouts are both well-formed durations the
\* ordering error is reported exactly when backendRequest in whole seconds
\* is greater than request in whole seconds; {request: 300s,
\* backendRequest: 600s} on a rule with a valid backend ref and no
\* matches gives exactly 1 error and 1 warning.
C8_TimeoutOrderingError ==
    bothWellFormed =>
        /\ (Len(orderingErrors(validation)) = 1)
             <=> (wholeSeconds(route.Rules[1].Timeouts[1].BackendRequest[1])
                    > wholeSeconds(route.Rules[1].Timeouts[1].Request[1]))
        /\ Len(orderingErrors(validation)) <= 1
        /\ (/\ route.Rules[1].Timeouts[1].Request[1] = <<"3", "0", "0", "s">>
            /\ route.Rules[1].Timeouts[1].BackendRequest[1] = <<"6", "0", "0", "s">>
            /\ route.Rules[1].Matches = <<>>)
           => Len(validation.Errors) = 1 /\ Len(validation.Warnings) = 1

\* the hostnames of ValHostnames that are not lower-case RFC 1123 names with
\* an optional wildcard prefix
MalformedHostnames == {UpperHost, HyphenHost, EmptyLabelHost, <<>>}

\* a route with a valid name, a namespace, one named reference to a
\* Gateway, and rules that are absent or well-formed
wellFormedButHostnames ==
    /\ validation.status = "ok"
    /\ route.Name = <<"r">>
    /\ route.Namespace # <<>>
    /\ route.ParentRefs = <<GatewayRef>>
    /\ route.Rules \in {<<>>, <<CleanRule>>}

rulesWithKey(key) ==
    {i - 1 : i \in {k \in 1..Len(route.Rules) :
                       \E j \in 1..Len(route.Rules[k].Matches) :
                           /\ route.Rules[k].Matches[j].Path # None
                           /\ route.Rules[k].Matches[j].Path[1].Value # None
                           /\ route.Rules[k].Matches[j].Path[1].Type # None
                           /\ conflictKey(route.Rules[k].Matches[j]) = key}}

conflictWarnings(res, key) ==
    SelectSeq(res.Warnings, LAMBDA f :
        f.msg = "path %s appears in multiple rules: %v" /\ f.text = key)

\* C10: the cross-rule check emits exactly one warning for each (path type,
\* path value) key that appears in more than one rule, listing those rule
\* indices, and none for a key whose matches all belong to a single rule.
C10_PathConflicts ==
    validation.status = "ok" =>
        \A key \in conflictKeys(route) :
            IF Cardinality(rulesWithKey(key)) > 1
            THEN /\ Len(conflictWarnings(validation, key)) = 1
                 /\ {conflictWarnings(validation, key)[1].indices[n] :
                        n \in 1..Len(conflictWarnings(validation, key)[1].indices)}
                    = rulesWithKey(key)
            ELSE Len(conflictWarnings(validation, key)) = 0

(***************************************************************************)
(* SpecReadiness: assessReadiness on one score and one feature list        *)
(***************************************************************************)
MaxScore == 30      \* scores range over -MaxScore..MaxScore
MaxFeatures == 2    \* entries of the feature list given to assessReadiness

\* feature tags of detectFeatures: the two snippet tags and two others
FeatureTags == {"CUSTOM_SNIPPET", "SERVER_SNIPPET", "URL_REWRITE", "TLS_TERMINATION"}

InitReadiness ==
    /\ ingresses = <<>>
    /\ opts = [SplitMode |-> "single", GatewayName |-> <<>>]
    /\ httpRoutes = NoCall
    /\ prevRoutes = NoCall
    /\ rulesOut = NoRules
    /\ timeoutsOut = NoTimeouts
    /\ validatorIdle
    /\ score \in (0 - MaxScore)..MaxScore
    /\ features \in SeqsUpTo(FeatureTags, MaxFeatures)
    /\ readiness = NoReadiness
    /\ analysis = NoAnalysis
    /\ sanitizerIdle
    /\ batchIdle

AssessReadinessCall ==
    /\ readiness' = assessReadiness(score, features)
    /\ UNCHANGED <<convVars, valVars, score, features, analysis, sanVars, batchVars>>

NextReadiness == AssessReadinessCall

SpecReadiness == InitReadiness /\ [][NextReadiness]_vars

(***************************************************************************)
(* Claims about the analyzer.                                              *)
(***************************************************************************)
\* the feature list holds one of the two snippet tags
hasSnippet ==
    \E i \in 1..Len(features) : features[i] \in {"CUSTOM_SNIPPET", "SERVER_SNIPPET"}

\* C11: whenever the feature list holds CUSTOM_SNIPPET or SERVER_SNIPPET,
\* assessReadiness returns MANUAL_REVIEW_REQUIRED, whatever the score
\* (scores of 10 and below and negative scores included).
C11_BlockerOverride ==
    (readiness # NoReadiness /\ hasSnippet) => readiness = "MANUAL_REVIEW_REQUIRED"

\* a negative score with a snippet tag after another tag has been classified
C11_Witness ==
    /\ readiness = "MANUAL_REVIEW_REQUIRED"
    /\ score < 0
    /\ Len(features) = 2
    /\ features[1] = "URL_REWRITE"
    /\ features[2] = "SERVER_SNIPPET"

singleModeRules == convertSingle(ingresses[1], opts).routes[1].Rules

\* C13: for one source resource, every resource generated in per-pattern
\* mode has the rule list single mode gives for the same source: the rules
\* of the first source rule's path list followed by the default-backend
\* rule when the source declares a default backend.
C13_PerPatternRules ==
    (/\ returnedForOne
     /\ opts.SplitMode = "per-pattern"
     /\ convertSingle(ingresses[1], opts).status = "ok") =>
        \A n \in 1..Len(httpRoutes.routes) : httpRoutes.routes[n].Rules = singleModeRules

\* the indices of the source rules with a non-empty host, in source order
hostRuleIndices(ing) ==
    SelectSeq([i \in 1..Len(ing.Rules) |-> i], LAMBDA i : ing.Rules[i].Host # <<>>)

\* the Rule Synthesizer output for the path list of source rule i
ownRules(ing, i) ==
    IF ing.Rules[i].HTTP = None THEN <<>>
    ELSE convertHTTPRules(ing, ing.Rules[i].HTTP[1].Paths).rules

\* C14: in per-host mode every generated resource has exactly one hostname,
\* the host of its source rule, and its rule list is the Rule Synthesizer
\* output for that source rule's own path list; it is empty when the source
\* rule has no HTTP paths.
C14_PerHostRules ==
    (returnedForOne /\ opts.SplitMode = "per-host") =>
        LET ing == ingresses[1]
            idx == hostRuleIndices(ing)
        IN  /\ Len(httpRoutes.routes) = Len(idx)
            /\ \A n \in 1..Len(idx) :
                  /\ httpRoutes.routes[n].Hostnames = <<ing.Rules[idx[n]].Host>>
                  /\ httpRoutes.routes[n].Rules = ownRules(ing, idx[n])
                  /\ ing.Rules[idx[n]].HTTP = None => httpRoutes.routes[n].Rules = <<>>

\* per-host mode has returned two resources: the first, from a source rule
\* without HTTP paths, has no rules; the second has the rules of its own paths
C14_Witness ==
    /\ returnedForOne
    /\ opts.SplitMode = "per-host"
    /\ Len(httpRoutes.routes) = 2
    /\ ingresses[1].Rules[1].HTTP = None
    /\ httpRoutes.routes[1].Rules = <<>>
    /\ Len(httpRoutes.routes[2].Rules) = 2

(***************************************************************************)
(* Claims about the timeout annotations.                                   *)
(***************************************************************************)
\* the annotation is present and strconv.Atoi accepts its value
parsable(key) ==
    /\ key \in DOMAIN ingresses[1].Annotations
    /\ Atoi(ingresses[1].Annotations[key]).ok

\* the integer value of a parsable annotation
annotationValue(key) == Atoi(ingresses[1].Annotations[key]).val

\* the Timeouts value with "<n>s" in both fields
bothFields(n) ==
    Some([Request |-> Some(FormatSeconds(n)), BackendRequest |-> Some(FormatSeconds(n))])

maxOf(a, b) == IF a >= b THEN a ELSE b

\* C16: when both timeout annotations are integers and differ, request and
\* backendRequest both carry the maximum of the two values.
C16_MaximumTimeout ==
    (/\ timeoutsOut.called
     /\ parsable(ReadTimeoutKey)
     /\ parsable(SendTimeoutKey)
     /\ annotationValue(ReadTimeoutKey) # annotationValue(SendTimeoutKey)) =>
        timeoutsOut.value =
            bothFields(maxOf(annotationValue(ReadTimeoutKey), annotationValue(SendTimeoutKey)))

(***************************************************************************)
(* SpecGateway: Convert on one source resource whose routing class is set  *)
(* by the structured field, by the legacy annotation, by both or by none   *)
(***************************************************************************)
\* spec.ingressClassName: nil, or a pointer to a class name
ClassFields == {None, Some(<<"t">>), Some(<<>>)}

\* the annotations with or without the legacy class annotation
ClassAnnotations == {NoAnnotations, (IngressClassKey :> <<"h">>), (IngressClassKey :> <<>>)}

\* source rules without HTTP paths
HostOnlyRules == SeqsUpTo([Host : Hosts, HTTP : {None}], MaxRules)

InitGateway ==
    /\ ingresses \in {<<[Ingress(<<"w">>, a, rs, None) EXCEPT !.IngressClassName = c]>> :
                         a \in ClassAnnotations, rs \in HostOnlyRules, c \in ClassFields}
    /\ opts \in OptionValues
    /\ httpRoutes = NoCall
    /\ prevRoutes = NoCall
    /\ rulesOut = NoRules
    /\ timeoutsOut = NoTimeouts
    /\ validatorIdle
    /\ analyzerIdle
    /\ batchIdle
    /\ sanitizerIdle

SpecGateway == InitGateway /\ [][Next]_vars

\* the routing class of the source: the structured field, else the legacy
\* annotation, else nginx
routingClass(ing) ==
    IF ing.IngressClassName # None THEN ing.IngressClassName[1]
    ELSE IF IngressClassKey \in DOMAIN ing.Annotations THEN ing.Annotations[IngressClassKey]
    ELSE <<"n", "g", "i", "n", "x">>

\* C17: every generated resource has exactly one parent reference; its name
\* is the caller-supplied gateway name when that is non-empty, otherwise
\* "gateway-" followed by the routing class of the source.
C17_ParentReference ==
    returnedForOne =>
        \A n \in 1..Len(httpRoutes.routes) :
            /\ Len(httpRoutes.routes[n].ParentRefs) = 1
            /\ httpRoutes.routes[n].ParentRefs[1].Name =
                  IF opts.GatewayName # <<>> THEN opts.GatewayName
                  ELSE <<"g", "a", "t", "e", "w", "a", "y", "-">> \o routingClass(ingresses[1])

\* per-host mode has generated two resources for a source that sets both the
\* class field and the legacy annotation, with no caller-supplied name
C17_Witness ==
    /\ returnedForOne
    /\ opts.SplitMode = "per-host"
    /\ opts.GatewayName = <<>>
    /\ ingresses[1].IngressClassName = Some(<<"t">>)
    /\ IngressClassKey \in DOMAIN ingresses[1].Annotations
    /\ ingresses[1].Annotations[IngressClassKey] = <<"h">>
    /\ Len(httpRoutes.routes) = 2
    /\ httpRoutes.routes[2].ParentRefs[1].Name = <<"g", "a", "t", "e", "w", "a", "y", "-", "t">>

(***************************************************************************)
(* SpecSanitize: sanitizeName on one string.  The strings are a first part *)
(* of up to MaxHeadLen characters, a run of a's that is empty or brings    *)
(* the length near the limit of 63, and a last part of up to MaxTailLen    *)
(* characters.                                                             *)
(***************************************************************************)
MaxHeadLen == 1     \* characters before the run of a's
MaxTailLen == 3     \* characters after the run of a's

\* a lower-case letter, an upper-case letter, a hyphen and a replaced character
NameChars == {"a", "Z", "-", "."}

\* the strings handed to sanitizeName; the run of a's is empty or up to four
\* characters short of the limit
RawNames ==
    LET Fill(n) == [i \in 1..n |-> "a"]
        FillLengths == {0} \cup ((NameLimit - 4)..NameLimit)
    IN  {h \o Fill(k) \o tl : h \in SeqsUpTo(NameChars, MaxHeadLen), k \in FillLengths,
                              tl \in SeqsUpTo(NameChars, MaxTailLen)}

InitSanitize ==
    /\ ingresses = <<>>
    /\ opts = [SplitMode |-> "single", GatewayName |-> <<>>]
    /\ httpRoutes = NoCall
    /\ prevRoutes = NoCall
    /\ rulesOut = NoRules
    /\ timeoutsOut = NoTimeouts
    /\ validatorIdle
    /\ analyzerIdle
    /\ batchIdle
    /\ rawName \in RawNames
    /\ cleanName = NoName

SanitizeNameCall ==
    /\ cleanName' = [called |-> TRUE, value |-> sanitizeName(rawName)]
    /\ UNCHANGED <<convVars, valVars, anVars, rawName, batchVars>>

NextSanitize == SanitizeNameCall

SpecSanitize == InitSanitize /\ [][NextSanitize]_vars

\* C18: the string sanitizeName returns holds only characters of [a-z0-9-],
\* is at most 63 characters long and neither starts nor ends with '-'.
C18_SanitizedName ==
    cleanName.called =>
        LET s == cleanName.value
        IN  /\ \A i \in 1..Len(s) : s[i] \in Lower \cup Digit \cup {"-"}
            /\ Len(s) <= 63
            /\ Len(s) > 0 => (s[1] # "-" /\ s[Len(s)] # "-")

(***************************************************************************)
(* SpecCanary: convertHTTPRules for a source with or without the canary    *)
(* annotations                                                             *)
(***************************************************************************)
CanaryKey == "nginx.ingress.kubernetes.io/canary"
CanaryWeightKey == "nginx.ingress.kubernetes.io/canary-weight"

\* no canary annotation, a canary weight of 20 with and without the canary
\* switch, and a canary weight that is not an integer
CanaryAnnotations ==
    {NoAnnotations,
     (CanaryWeightKey :> <<"2", "0">>),
     (CanaryKey :> <<"t", "r", "u", "e">>) @@ (CanaryWeightKey :> <<"2", "0">>),
     (CanaryWeightKey :> <<"x">>)}

InitCanary ==
    /\ ingresses \in {<<Ingress(<<"w">>, a, OneRule(HostA, Some([Paths |-> ps])), None)>> :
                         a \in CanaryAnnotations, ps \in SeqsUpTo(PathEntries, MaxRules)}
    /\ opts = [SplitMode |-> "single", GatewayName |-> <<>>]
    /\ httpRoutes = NoCall
    /\ prevRoutes = NoCall
    /\ rulesOut = NoRules
    /\ timeoutsOut = NoTimeouts
    /\ validatorIdle
    /\ analyzerIdle
    /\ batchIdle
    /\ sanitizerIdle

SpecCanary == InitCanary /\ [][NextRules]_vars

\* the weight the canary-weight annotation asks for: its integer value, or
\* the default 1 when it is absent or not an integer
wantedWeight(ing) ==
    IF CanaryWeightKey \in DOMAIN ing.Annotations /\ Atoi(ing.Annotations[CanaryWeightKey]).ok
    THEN Atoi(ing.Annotations[CanaryWeightKey]).val
    ELSE 1

\* C19: every backendRef of every generated rule has weight 1, unless the
\* source carries a canary-weight annotation with the integer N, and then
\* weight N.
C19_CanaryWeight ==
    rulesOut.status = "ok" =>
        \A n \in 1..Len(rulesOut.rules) :
            \A b \in 1..Len(rulesOut.rules[n].BackendRefs) :
                rulesOut.rules[n].BackendRefs[b].Weight = Some(wantedWeight(ingresses[1]))

(***************************************************************************)
(* SpecCommand: the validate command on a file with one HTTPRoute, with    *)
(* and without --strict                                                    *)
(***************************************************************************)
\* two rules with the same match, and one rule with two different matches
SharedPathRoutes ==
    {Route(<<"r">>, <<"n", "s">>, <<HostA>>, <<GatewayRef>>,
           <<RouteRule(<<CleanMatch>>, <<CleanBackendRef>>, <<>>, None),
             RouteRule(<<CleanMatch>>, <<CleanBackendRef>>, <<>>, None)>>),
     Route(<<"r">>, <<"n", "s">>, <<HostA>>, <<GatewayRef>>,
           <<RouteRule(<<CleanMatch, Match(Some("Exact"), Some(<<"/", "a">>))>>,
                       <<CleanBackendRef>>, <<>>, None)>>)}

InitCommand ==
    /\ ingresses = <<>>
    /\ opts = [SplitMode |-> "single", GatewayName |-> <<>>]
    /\ httpRoutes = NoCall
    /\ prevRoutes = NoCall
    /\ rulesOut = NoRules
    /\ timeoutsOut = NoTimeouts
    /\ strict \in BOOLEAN
    /\ route \in MetadataRoutes \cup OddRoutes \cup SharedPathRoutes
    /\ validation = NoResult
    /\ prevValidation = NoResult
    /\ cmdResult = NotRun
    /\ analyzerIdle
    /\ batchIdle
    /\ sanitizerIdle

RunValidateCall ==
    /\ \E order \in mapOrders(conflictKeys(route)) :
          /\ validation' = validateWith([strict |-> strict], route, order)
          /\ cmdResult' = runValidate(strict, validateWith([strict |-> strict], route, order))
    /\ prevValidation' = validation
    /\ UNCHANGED <<convVars, strict, route, anVars, sanVars, batchVars>>

NextCommand == RunValidateCall

SpecCommand == InitCommand /\ [][NextCommand]_vars

(***************************************************************************)
(* Claims about the strict flag.                                           *)
(***************************************************************************)
\* the findings the validator classifies as warnings
WarningMessages ==
    {"metadata.namespace not specified, will use default namespace",
     "no hostnames specified, HTTPRoute will match all hostnames",
     "parentRefs[%d].kind is %s, expected Gateway",
     "rules[%d]: no matches specified, will match all requests",
     "path %s appears in multiple rules: %v"}

\* what a validator created with strict=false returns for the route
lenientResults ==
    {validateWith([strict |-> FALSE], route, order) : order \in mapOrders(conflictKeys(route))}

\* C20: the Errors and Warnings a validator returns are those a validator
\* created with strict=false returns for the same resource, no finding
\* classified as a warning is among the Errors, and the command fails exactly
\* when there are errors, or warnings and --strict.
C20_NoEscalation ==
    (validation.status = "ok" /\ cmdResult # NotRun) =>
        /\ \E r \in lenientResults :
              validation.Errors = r.Errors /\ validation.Warnings = r.Warnings
        /\ \A i \in 1..Len(validation.Errors) :
              validation.Errors[i].msg \notin WarningMessages
        /\ \A i \in 1..Len(validation.Warnings) :
              validation.Warnings[i].msg \in WarningMessages
        /\ (cmdResult = "failed") <=>
              (validation.Errors # <<>> \/ (strict /\ validation.Warnings # <<>>))
        /\ cmdResult \in {"passed", "failed"}

\* a strict validator has returned warnings and no errors, and the command
\* has failed
C20_Witness ==
    /\ strict
    /\ validation.status = "ok"
    /\ validation.Errors = <<>>
    /\ Len(validation.Warnings) = 2
    /\ cmdResult = "failed"

(***************************************************************************)
(* Claims about the validator as a function.                               *)
(***************************************************************************)
\* C21: a second validateHTTPRoute on the same resource returns the same
\* Errors list and the same Warnings list, in the same order, as the first.
C21_ValidateDeterministic ==
    (prevValidation.status = "ok" /\ validation.status = "ok") =>
        /\ validation.Errors = prevValidation.Errors
        /\ validation.Warnings = prevValidation.Warnings

(***************************************************************************)
(* SpecBatch: the batch command on a cluster of two namespaces             *)
(***************************************************************************)
\* an Ingress with two hosts, one whose only path has a resource backend,
\* and one without any rule
ClusterIngresses ==
    {Ingress(<<"g">>, NoAnnotations,
             <<[Host |-> HostA, HTTP |-> Some([Paths |-> <<Entry(<<"/">>, "Prefix", <<"s">>)>>])],
               [Host |-> HostC, HTTP |-> None]>>, None),
     Ingress(<<"r">>, NoAnnotations, OneRule(HostB, Some([Paths |-> <<ResourceEntry>>])), None),
     Ingress(<<"e">>, NoAnnotations, <<>>, None)}

\* what the environment does in a namespace
Environments == {"ok", "listFails", "mkdirFails", "createFails"}

Namespace(name) ==
    [name : {name}, env : Environments,
     ingresses : SeqsUpTo(ClusterIngresses, MaxIngresses)]

\* the namespace visited last: empty or with one Ingress that converts
LastNamespace(name) ==
    [name : {name}, env : Environments,
     ingresses : {<<>>, <<Ingress(<<"e">>, NoAnnotations, <<>>, None)>>}]

InitBatch ==
    /\ ingresses = <<>>
    /\ opts \in [SplitMode : SplitModes, GatewayName : {<<>>}]
    /\ httpRoutes = NoCall
    /\ prevRoutes = NoCall
    /\ rulesOut = NoRules
    /\ timeoutsOut = NoTimeouts
    /\ validatorIdle
    /\ analyzerIdle
    /\ sanitizerIdle
    /\ cluster \in {<<a, b>> : a \in Namespace("n1"), b \in LastNamespace("n2")}
    /\ batch = NoBatch

RunBatchCall ==
    /\ batch' = runBatch(cluster, opts)
    /\ UNCHANGED <<convVars, valVars, anVars, sanVars, cluster>>

NextBatch == RunBatchCall

SpecBatch == InitBatch /\ [][NextBatch]_vars

(***************************************************************************)
(* Claims about the batch command.                                         *)
(***************************************************************************)
\* the Ingresses ListIngresses has returned, namespace by namespace
RECURSIVE listedFrom(_)
listedFrom(n) ==
    IF n > Len(cluster) THEN <<>>
    ELSE (IF cluster[n].env = "listFails" THEN <<>>
          ELSE [i \in 1..Len(cluster[n].ingresses) |->
                    <<cluster[n].name, cluster[n].ingresses[i]>>])
         \o listedFrom(n + 1)

\* what one listed Ingress adds to the two counters together: one failure for
\* a conversion error, else one success or failure per route
RECURSIVE countedFrom(_, _)
countedFrom(listed, i) ==
    IF i > Len(listed) THEN 0
    ELSE (IF opts.SplitMode \notin {"single", "per-host", "per-pattern"} THEN 1
          ELSE IF opts.SplitMode = "single" THEN 1
          ELSE IF opts.SplitMode = "per-host" THEN Len(hostRuleIndices(listed[i][2]))
          ELSE Cardinality(groupKeys(listed[i][2])))
         + countedFrom(listed, i + 1)

\* C22: the batch run goes to its end whatever happens to one Ingress; every
\* listed Ingress has been handed to Convert exactly once, in order, and is
\* counted: one failure for a conversion error, else its routes among the
\* successes (or the failures, when their files cannot be written).
C22_BatchContinues ==
    batch.status # "none" =>
        LET listed == listedFrom(1)
        IN  /\ batch.status = "done"
            /\ batch.attempted = [i \in 1..Len(listed) |-> <<listed[i][1], listed[i][2].Name>>]
            /\ batch.totalConverted + batch.totalFailed = countedFrom(listed, 1)
            /\ opts.SplitMode \notin {"single", "per-host", "per-pattern"} =>
                  (batch.totalFailed = Len(listed) /\ batch.totalConverted = 0)

(***************************************************************************)
(* SpecComplexity: calculateComplexity on one source and one feature list  *)
(***************************************************************************)
MaxTLS == 2         \* TLS entries of an analysed Ingress

\* the tags of complexityMap and two tags without an entry
ScoredTags ==
    {"URL_REWRITE", "CUSTOM_SNIPPET", "SERVER_SNIPPET", "CANARY", "CANARY_WEIGHT",
     "MIRRORING", "AUTHENTICATION", "CORS", "BACKEND_PROTOCOL", "PROXY_READ_TIMEOUT",
     "SSL_REDIRECT", "TLS_TERMINATION", "PROXY_SEND_TIMEOUT"}

\* networkingv1.IngressTLS
TLSEntry == [Hosts |-> <<HostA>>]

\* an Ingress as the analyzer reads it: with spec.tls
Analysed(ing, tls) ==
    [f \in DOMAIN ing \cup {"TLS"} |-> IF f = "TLS" THEN tls ELSE ing[f]]

\* source rules with a host and no HTTP paths
HostRules(n) == [i \in 1..n |-> [Host |-> HostA, HTTP |-> None]]

InitComplexity ==
    /\ ingresses \in {<<Analysed(Ingress(<<"w">>, NoAnnotations, HostRules(n), None),
                                 [i \in 1..k |-> TLSEntry])>> :
                         n \in 0..MaxRules, k \in 0..MaxTLS}
    /\ opts = [SplitMode |-> "single", GatewayName |-> <<>>]
    /\ httpRoutes = NoCall
    /\ prevRoutes = NoCall
    /\ rulesOut = NoRules
    /\ timeoutsOut = NoTimeouts
    /\ validatorIdle
    /\ score = 0
    /\ features \in SeqsUpTo(ScoredTags, MaxFeatures)
    /\ readiness = NoReadiness
    /\ analysis = NoAnalysis
    /\ sanitizerIdle
    /\ batchIdle

CalculateComplexityCall ==
    /\ analysis' = [op |-> "calculateComplexity",
                    value |-> calculateComplexity(ingresses[1], features)]
    /\ ingresses' = sourceAfterAnalysis(ingresses)
    /\ UNCHANGED <<opts, httpRoutes, prevRoutes, rulesOut, timeoutsOut, valVars,
                   score, features, readiness, sanVars, batchVars>>

NextComplexity == CalculateComplexityCall

SpecComplexity == InitComplexity /\ [][NextComplexity]_vars

\* how often the tag occurs in the feature list
tagCount(tag) == Cardinality({i \in 1..Len(features) : features[i] = tag})

\* the static weights of the tags passed in, summed tag by tag
staticWeights ==
    5 * tagCount("URL_REWRITE") + 10 * tagCount("CUSTOM_SNIPPET")
    + 10 * tagCount("SERVER_SNIPPET") + 7 * tagCount("CANARY")
    + 7 * tagCount("CANARY_WEIGHT") + 8 * tagCount("MIRRORING")
    + 6 * tagCount("AUTHENTICATION") + 4 * tagCount("CORS")
    + 3 * tagCount("BACKEND_PROTOCOL") + 2 * tagCount("PROXY_READ_TIMEOUT")
    + 2 * tagCount("SSL_REDIRECT")

NginxClass == <<"n", "g", "i", "n", "x">>

InitIssues ==
    /\ ingresses \in {<<Analysed([Ingress(<<"w">>, a, HostRules(1), None)
                                     EXCEPT !.IngressClassName = c], <<>>)>> :
                         a \in ClassAnnotations \cup {(IngressClassKey :> NginxClass)},
                         c \in ClassFields \cup {Some(NginxClass)}}
    /\ opts = [SplitMode |-> "single", GatewayName |-> <<>>]
    /\ httpRoutes = NoCall
    /\ prevRoutes = NoCall
    /\ rulesOut = NoRules
    /\ timeoutsOut = NoTimeouts
    /\ validatorIdle
    /\ score = 0
    /\ features \in SeqsUpTo(FeatureTags, MaxFeatures)
    /\ readiness = NoReadiness
    /\ analysis = NoAnalysis
    /\ sanitizerIdle
    /\ batchIdle

IdentifyIssuesCall ==
    /\ analysis' = [op |-> "identifyIssues", value |-> identifyIssues(ingresses[1], features)]
    /\ ingresses' = sourceAfterAnalysis(ingresses)
    /\ UNCHANGED <<opts, httpRoutes, prevRoutes, rulesOut, timeoutsOut, valVars,
                   score, features, readiness, sanVars, batchVars>>

NextIssues == IdentifyIssuesCall

SpecIssues == InitIssues /\ [][NextIssues]_vars

\* the positions of the issues of one kind in the returned list
issuesOfKind(msg) == {i \in 1..Len(analysis.value) : analysis.value[i].msg = msg}

DeprecatedIssue == "Using deprecated annotation: %s (use spec.ingressClassName instead)"
SnippetIssue == "Custom NGINX snippets require manual review and cannot be directly migrated"
ForeignClassIssue == "Non-NGINX Ingress class detected: %s"

\* C24: identifyIssues emits the deprecated-annotation issue for a source
\* whose routing class comes from the legacy annotation (no structured
\* field), does not emit it for a source whose routing class is given by the
\* structured field, and emits nothing else but at most one snippet issue
\* and at most one non-matching-class issue.
C24_DeprecatedAnnotationIssue ==
    analysis.op = "identifyIssues" =>
        LET ing == ingresses[1]
        IN  /\ (ing.IngressClassName = None /\ IngressClassKey \in DOMAIN ing.Annotations)
                  => Cardinality(issuesOfKind(DeprecatedIssue)) = 1
            /\ ing.IngressClassName # None => issuesOfKind(DeprecatedIssue) = {}
            /\ Cardinality(issuesOfKind(SnippetIssue)) <= 1
            /\ Cardinality(issuesOfKind(ForeignClassIssue)) <= 1
            /\ \A i \in 1..Len(analysis.value) :
                  analysis.value[i].msg \in {DeprecatedIssue, SnippetIssue, ForeignClassIssue}

(***************************************************************************)
(* SpecRecommendations: generateRecommendations for one analysed source    *)
(***************************************************************************)
MaxHostCount == 6   \* distinct hosts of an analysed Ingress

\* n source rules with n different hosts h1.x.c, h2.x.c, ...
DistinctHostRules(n) ==
    [i \in 1..n |-> [Host |-> <<"h">> \o Itoa(i) \o <<".", "x", ".", "c">>, HTTP |-> None]]

InitRecommendations ==
    /\ ingresses \in {<<Analysed(Ingress(<<"w">>, NoAnnotations,
                                         DistinctHostRules(n) \o extra, None),
                                 [i \in 1..k |-> TLSEntry])>> :
                         n \in 0..MaxHostCount, k \in 0..MaxTLS,
                         extra \in {<<>>, DistinctHostRules(1), HostRules(1)}}
    /\ opts = [SplitMode |-> "single", GatewayName |-> <<>>]
    /\ httpRoutes = NoCall
    /\ prevRoutes = NoCall
    /\ rulesOut = NoRules
    /\ timeoutsOut = NoTimeouts
    /\ validatorIdle
    /\ score = 0
    /\ features \in SeqsUpTo({"PROXY_READ_TIMEOUT", "CANARY", "URL_REWRITE"}, MaxFeatures)
    /\ readiness = NoReadiness
    /\ analysis = NoAnalysis
    /\ sanitizerIdle
    /\ batchIdle

GenerateRecommendationsCall ==
    /\ analysis' = [op |-> "generateRecommendations",
                    value |-> generateRecommendations(ingresses[1],
                                  analysisResult(ingresses[1], features))]
    /\ ingresses' = sourceAfterAnalysis(ingresses)
    /\ UNCHANGED <<opts, httpRoutes, prevRoutes, rulesOut, timeoutsOut, valVars,
                   score, features, readiness, sanVars, batchVars>>

NextRecommendations == GenerateRecommendationsCall

SpecRecommendations == InitRecommendations /\ [][NextRecommendations]_vars

\* C25: generateRecommendations returns at least one recommendation for
\* every analysed source with at least one host.
C25_SomeRecommendation ==
    (/\ analysis.op = "generateRecommendations"
     /\ \E i \in 1..Len(ingresses[1].Rules) : ingresses[1].Rules[i].Host # <<>>) =>
        Len(analysis.value) >= 1


(***************************************************************************)
(* SpecSource: Convert and the analysis functions called, in any order and *)
(* any number of times, on the same source Ingress.                        *)
(***************************************************************************)
\* rule.HTTP values with an empty path next to explicit ones
SourceHTTP ==
    {None,
     Some([Paths |-> <<Entry(<<"/", "a">>, "Exact", <<"t">>),
                       Entry(<<>>, "Prefix", <<"s">>)>>])}

Sources ==
    {<<Analysed(Ingress(<<"w">>, a, rs, d), [i \in 1..k |-> TLSEntry])>> :
        a \in {NoAnnotations, ReadTimeout60},
        rs \in SeqsUpTo([Host : {HostA, HostC}, HTTP : SourceHTTP], MaxRules),
        d \in {None, Some([Service |-> Service(<<"d">>)])},
        k \in 0..1}

InitSource ==
    /\ ingresses \in Sources
    /\ opts \in [SplitMode : SplitModes, GatewayName : {<<>>}]
    /\ httpRoutes = NoCall
    /\ prevRoutes = NoCall
    /\ rulesOut = NoRules
    /\ timeoutsOut = NoTimeouts
    /\ validatorIdle
    /\ score = 0
    /\ features = <<"CANARY">>
    /\ readiness = NoReadiness
    /\ analysis = NoAnalysis
    /\ sanitizerIdle
    /\ batchIdle

NextSource ==
    \/ ConvertCall
    \/ CalculateComplexityCall
    \/ IdentifyIssuesCall
    \/ GenerateRecommendationsCall

SpecSource == InitSource /\ [][NextSource]_vars

C27_ValidateTotal == validation.status # "none" => validation.status = "ok"


(***************************************************************************)
(* SpecNaming: Convert on one Ingress whose name is short or as long as a  *)
(* Kubernetes name may be, and whose hosts include a single-label host     *)
(* that differs from a pattern only in the separator.                      *)
(***************************************************************************)
\* a one-label host: extractHostPattern returns it unchanged
DashedHost == <<"x", "-", "c">>

\* a valid Kubernetes name of the greatest length
LongestName == [i \in 1..NameLimit |-> "a"]

InitNaming ==
    /\ ingresses \in {<<Ingress(n, NoAnnotations, rs, None)>> :
                         n \in {<<"w">>, LongestName},
                         rs \in SeqsUpTo([Host : {<<>>, HostA, HostC, DashedHost},
                                          HTTP : {None}], MaxRules)}
    /\ opts \in OptionValues
    /\ httpRoutes = NoCall
    /\ prevRoutes = NoCall
    /\ rulesOut = NoRules
    /\ timeoutsOut = NoTimeouts
    /\ validatorIdle
    /\ analyzerIdle
    /\ batchIdle
    /\ sanitizerIdle

SpecNaming == InitNaming /\ [][Next]_vars

\* C28: in per-host and per-pattern mode the routes generated from one
\* Ingress have pairwise distinct names.
C28_DistinctNames ==
    (httpRoutes.status = "ok" /\ opts.SplitMode \in {"per-host", "per-pattern"}) =>
        \A i, j \in 1..Len(httpRoutes.routes) :
            i # j => httpRoutes.routes[i].Name # httpRoutes.routes[j].Name

\* metadata.name as the Ingress API accepts it
validSourceName(name) == isDNSLabel(name) /\ Len(name) <= NameLimit

\* C29: when the source name is valid, every generated route name passes
\* the metadata check of the validator (pattern and length), whatever the
\* split mode.
C29_GeneratedNamesValid ==
    (httpRoutes.status = "ok" /\ validSourceName(ingresses[1].Name)) =>
        \A i \in 1..Len(httpRoutes.routes) :
            validateMetadata(httpRoutes.routes[i],
                             [status |-> "ok", Errors |-> <<>>, Warnings |-> <<>>]).Errors = <<>>


(***************************************************************************)
(* SpecDefaulting: convertHTTPRules on path lists in which the path may be *)
(* left empty.                                                             *)
(***************************************************************************)
\* networkingv1.HTTPIngressPath with Path "" next to the explicit paths
DefaultedPathEntries ==
    {Entry(p, "Prefix", n) : p \in {<<>>} \cup PathValues, n \in ServiceNames}

InitDefaulting ==
    /\ ingresses \in {<<Ingress(<<"w">>, NoAnnotations,
                                  OneRule(HostA, Some([Paths |-> ps])), None)>> :
                         ps \in SeqsUpTo(DefaultedPathEntries, MaxPaths)}
    /\ opts = [SplitMode |-> "single", GatewayName |-> <<>>]
    /\ httpRoutes = NoCall
    /\ prevRoutes = NoCall
    /\ rulesOut = NoRules
    /\ timeoutsOut = NoTimeouts
    /\ validatorIdle
    /\ analyzerIdle
    /\ batchIdle
    /\ sanitizerIdle

SpecDefaulting == InitDefaulting /\ [][NextRules]_vars

\* C30: no two rules returned by convertHTTPRules have the same path match
\* value and the same backend service name, also when an empty path, which
\* is written as "/", stands next to an explicit "/".
C30_NoRepeatedMatch ==
    rulesOut.status = "ok" =>
        \A i, j \in 1..Len(rulesOut.rules) :
            (/\ rulesOut.rules[i].Matches[1].Path[1].Value =
                    rulesOut.rules[j].Matches[1].Path[1].Value
             /\ rulesOut.rules[i].BackendRefs[1].Name = rulesOut.rules[j].BackendRefs[1].Name)
                => i = j
====
